---- MODULE Spec2Model ----
(***************************************************************************)
(* jot backend: the input ingestion and note-structuring pipeline.         *)
(*                                                                         *)
(* Two flows are modelled.  The legacy single-capture flow (processCapture *)
(* behind POST /api/capture/commit) creates one note per capture.  The     *)
(* note-centric flow (POST /api/notes, PATCH /api/notes/:id and the        *)
(* text/audio commit routes) merges contributions into an existing note.   *)
(*                                                                         *)
(* Texts are sequences of one-character strings, so that joining,          *)
(* splitting and prefixes are computed and not assumed.  Every external    *)
(* call (database, blob store, OpenAI) is a suspension point and a step of *)
(* its own; its outcome is chosen nondeterministically.                    *)
(***************************************************************************)
EXTENDS Integers, Sequences, FiniteSets, TLC

VARIABLES
    captures,       \* table captures: sequence of rows, id = index
    transcripts,    \* table transcripts: capture_id -> text (capture_id is the primary key)
    legacyNotes,    \* table notes of the capture-centric schema: sequence of rows
    runs,           \* invocations of processCapture, one per committed capture
    notes,          \* table notes of the note-centric schema: sequence of rows
    text_inputs,    \* table text_inputs: sequence of rows
    audio_files,    \* table audio_files: sequence of rows
    audio_transcripts, \* table transcripts of the note-centric schema: audio_file_id -> text
    noteRuns,       \* invocations of processTextToNote / processAudioToNote
    patches,        \* number of PATCH requests made
    lastWriter,     \* history: for each note, the run that wrote it back last (0: none)
    initialText,    \* history: for each note, the content_text it was created with
    call,           \* the call of a function of lib/openai.ts in progress, or the last one made
    tmpFiles,       \* files in the temporary directory staged by transcribeAudio
    now,            \* the clock, in seconds
    redis,          \* counter store: window key -> [count, expireAt]
    requests,       \* requests to a rate-limited route in progress
    admitted,       \* history: (key, second) -> requests of that second let through / denied
    failedOpen      \* history: requests let through without a count of the store

vars == <<captures, transcripts, legacyNotes, runs,
          notes, text_inputs, audio_files, audio_transcripts, noteRuns, patches, lastWriter,
          initialText, call, tmpFiles, now, redis, requests, admitted,
          failedOpen>>

legacyVars == <<captures, transcripts, legacyNotes, runs>>
noteVars == <<notes, text_inputs, audio_files, audio_transcripts, noteRuns, patches, lastWriter,
          initialText>>
libVars == <<call, tmpFiles>>
guardVars == <<now, redis, requests, admitted, failedOpen>>

-----------------------------------------------------------------------------
(* Bounds of the model *)

MaxRuns == 2        \* commits to POST /api/capture/commit
MaxNotes == 1       \* notes created through POST /api/notes
MaxNoteRuns == 2    \* commits to the note-centric commit routes
MaxPatches == 1     \* PATCH requests

-----------------------------------------------------------------------------
(* Values *)

Users == {"u1", "u2"}

\* the commit route passes the authenticated caller on to processCapture, so
\* in the legacy flow a run always works on a capture of its own user
LegacyUsers == {"u1"}

\* the callers of the note-centric routes in the specifications below
NoteUsers == {"u1"}

\* SQL NULL / JS null in a text column: a one-token sequence that is no text
\* (the tokens of a text are single characters)
NULL == <<"null">>

\* the blank-line separator "\n\n"
BlankLine == <<"\n", "\n">>

\* objects of the "audio" bucket: storage key -> what is spoken in the recording
AudioObjects == [a1 |-> <<"a">>, a2 |-> <<"b">>, a0 |-> <<>>]

\* objects of the "notes" bucket: storage key -> content of the text file
TextObjects == [t1 |-> <<"a">>, t2 |-> <<"b">>, t0 |-> <<>>]

\* storage keys a client may commit; "nokey" names no uploaded object
LegacyAudioKeys == {"a1", "a0"}
LegacyTextKeys == {"t1", "nokey"}

Last(s) == s[Len(s)]

\* s.endsWith(t)
EndsWith(s, t) ==
    /\ Len(t) <= Len(s)
    /\ SubSeq(s, Len(s) - Len(t) + 1, Len(s)) = t

\* s.startsWith(t)
StartsWith(s, t) ==
    /\ Len(t) <= Len(s)
    /\ SubSeq(s, 1, Len(t)) = t

-----------------------------------------------------------------------------
(* Rich documents (ProseMirror JSON) *)

TextNode(t) == [type |-> "text", text |-> t]

Heading(level, t) ==
    [type |-> "heading", attrs |-> [level |-> level], content |-> <<TextNode(t)>>]

Paragraph(t) == [type |-> "paragraph", content |-> <<TextNode(t)>>]

ListItem(t) == [type |-> "listItem", content |-> <<Paragraph(t)>>]

TaskItem(t) ==
    [type |-> "taskItem", attrs |-> [checked |-> FALSE], content |-> <<Paragraph(t)>>]

BulletList(items) == [type |-> "bulletList", content |-> items]

TaskList(items) == [type |-> "taskList", content |-> items]

Doc(content) == [type |-> "doc", content |-> content]

Label(s) == <<s>>   \* a fixed label of the code, kept as one token

\* a JSON value is a rich-document tree when it is an object of type 'doc'
\* with a content array
IsDoc(v) ==
    /\ DOMAIN v = {"type", "content"}
    /\ v.type = "doc"

-----------------------------------------------------------------------------
(* Content Structurer: lib/openai.ts *)

TagVocabulary == {"work", "creative", "health", "study", "life"}
Languages == {"en", "zh", "mixed"}

OutlineFields ==
    {"title", "highlights", "insights", "open_questions", "next_steps", "tags", "lang"}

\* outlineJsonSchema.parse succeeds
IsOutlineJson(v) ==
    /\ DOMAIN v = OutlineFields
    /\ \A i \in 1..Len(v.tags) : v.tags[i] \in TagVocabulary
    /\ v.lang \in Languages

\* what the chat completion may answer to the structuring prompt
GptOutline ==
    [title |-> <<"T">>, highlights |-> << <<"h">> >>, insights |-> <<>>,
     open_questions |-> << <<"q">> >>, next_steps |-> <<>>,
     tags |-> <<"work">>, lang |-> "en"]

GptBadOutline == [GptOutline EXCEPT !.tags = <<"party">>]

StructureResponses ==
    { [kind |-> "error"], [kind |-> "empty"], [kind |-> "invalid_json"],
      [kind |-> "json", value |-> GptOutline],
      [kind |-> "json", value |-> GptBadOutline] }

FallbackOutline ==
    [title |-> Label("Untitled Note"),
     highlights |-> << Label("Transcript processing failed") >>,
     insights |-> <<>>, open_questions |-> <<>>, next_steps |-> <<>>,
     tags |-> <<>>, lang |-> "en"]

\* mutant: the answer of the model is returned without schema validation
structureOutline_Unvalidated(transcriptText, response) ==
    IF response.kind = "json" THEN response.value ELSE FallbackOutline

\* structureOutline: the try block throws on an upstream error, an empty
\* response, unparsable JSON and a schema violation; the catch block returns
\* the fallback outline
structureOutline(transcriptText, response) ==
    IF response.kind = "json" /\ IsOutlineJson(response.value)
    THEN response.value
    ELSE FallbackOutline

MapItems(items, F(_)) == [i \in 1..Len(items) |-> F(items[i])]

QuestionItem(q) == ListItem(IF EndsWith(q, <<"?">>) THEN q ELSE q \o <<"?">>)

StepItem(step) == TaskItem(step.text)

Section(title, list) ==
    IF Len(list.content) > 0 THEN <<Heading(2, Label(title)), list>> ELSE <<>>

createFallbackEditorJson(outline) ==
    Doc(<<Heading(1, outline.title)>>
        \o Section("Highlights", BulletList(MapItems(outline.highlights, ListItem)))
        \o Section("Insights", BulletList(MapItems(outline.insights, ListItem)))
        \o Section("Open Questions", BulletList(MapItems(outline.open_questions, QuestionItem)))
        \o Section("Next Steps", TaskList(MapItems(outline.next_steps, StepItem))))

\* what the chat completion may answer to the rendering prompt: a faithful
\* document, an object of another type, an object without a type
RenderResponses(outline) ==
    { [kind |-> "error"], [kind |-> "empty"], [kind |-> "invalid_json"],
      [kind |-> "json", value |-> createFallbackEditorJson(outline)],
      [kind |-> "json", value |-> Paragraph(outline.title)],
      [kind |-> "json", value |-> [content |-> <<>>]] }

\* outlineToEditorJson: returns the parsed answer when it has a type,
\* otherwise (and on every error) the local fallback document
outlineToEditorJson(outline, response) ==
    IF response.kind = "json" /\ "type" \in DOMAIN response.value
    THEN response.value
    ELSE createFallbackEditorJson(outline)

-----------------------------------------------------------------------------
(* Legacy single-capture flow: POST /api/capture/commit and processCapture *)

Unset == [unset |-> TRUE]    \* a local variable not yet assigned

\* pipeline stage of each program position inside the try block
StageOf(pc) ==
    CASE pc = "fetch" -> "Fetching"
      [] pc \in {"download", "transcribe", "transcribing", "saveTranscript",
                 "downloadText"} -> "Extracting"
      [] pc \in {"structure", "render"} -> "Structuring"
      [] pc = "insertNote" -> "Persisting"

\* row level security: a request of user u sees the captures of u only
\* (policies own_captures, own_transcripts)
VisibleCapture(u, c) == c \in 1..Len(captures) /\ captures[c].user_id = u

NewRun(u, c) ==
    [userId |-> u, captureId |-> c, pc |-> "fetch", capture |-> Unset,
     text |-> <<>>, outline |-> Unset, editorJson |-> Unset,
     fallbackText |-> <<>>, noteId |-> 0,
     trail |-> <<"Fetching">>, caughtAt |-> "", recoveries |-> 0,
     savedTranscript |-> FALSE, inserted |-> {},
     transcribeCalls |-> 0, transcribeError |-> ""]

\* POST /api/capture/commit: insert the capture row, then call processCapture
CommitCapture(u, isAudio, key) ==
    /\ Len(runs) < MaxRuns
    /\ captures' = Append(captures,
           [user_id |-> u,
            audio_path |-> IF isAudio THEN key ELSE "",
            text_path |-> IF isAudio THEN "" ELSE key])
    /\ runs' = Append(runs, NewRun(u, Len(captures) + 1))
    /\ UNCHANGED <<transcripts, legacyNotes, noteVars, libVars, guardVars>>

\* the run moves on inside the try block
Goto(run, pc) ==
    [run EXCEPT !.pc = pc,
                !.trail = IF Last(@) = StageOf(pc) THEN @ ELSE Append(@, StageOf(pc))]

\* a throw inside the try block: control enters the catch block, which
\* starts the recovery attempt; the locals of the try block go out of scope
Throw(run) ==
    [run EXCEPT !.pc = "recTranscript", !.caughtAt = Last(run.trail),
                !.recoveries = @ + 1,
                !.capture = Unset, !.text = <<>>, !.outline = Unset,
                !.editorJson = Unset]

\* processCapture returns { noteId }
Return(run, id) ==
    [run EXCEPT !.pc = "done", !.noteId = id, !.trail = Append(@, "Done"),
                !.inserted = @ \cup {id},
                !.capture = Unset, !.text = <<>>, !.outline = Unset,
                !.editorJson = Unset, !.fallbackText = <<>>]

\* processCapture throws InternalServerError('Failed to process capture')
Fail(run) ==
    [run EXCEPT !.pc = "failed", !.trail = Append(@, "Failed"),
                !.capture = Unset, !.fallbackText = <<>>]

\* 1. fetch capture metadata, scoped to the caller
FetchCapture(r) ==
    /\ runs[r].pc = "fetch"
    /\ \E ok \in BOOLEAN :
         LET run == runs[r]
             row == captures[run.captureId]
         IN  runs' = [runs EXCEPT ![r] =
               IF ok /\ VisibleCapture(run.userId, run.captureId)
               THEN IF row.audio_path # ""
                    THEN Goto([run EXCEPT !.capture = row], "download")
                    ELSE IF row.text_path # ""
                    THEN Goto([run EXCEPT !.capture = row], "downloadText")
                    ELSE Throw(run)
               ELSE Throw(run)]
    /\ UNCHANGED <<captures, transcripts, legacyNotes, noteVars, libVars, guardVars>>

\* 2. download the audio from the "audio" bucket
DownloadAudio(r) ==
    /\ runs[r].pc = "download"
    /\ \E ok \in BOOLEAN :
         LET run == runs[r]
         IN  runs' = [runs EXCEPT ![r] =
               IF ok /\ run.capture.audio_path \in DOMAIN AudioObjects
               THEN Goto(run, "transcribe")
               ELSE Throw(run)]
    /\ UNCHANGED <<captures, transcripts, legacyNotes, noteVars, libVars, guardVars>>

\* 4. transcribe with Whisper; every failure of transcribeAudio is thrown
\* (the call as one step, the cause of a failure left open)
TranscribeAudio(r) ==
    /\ runs[r].pc = "transcribe"
    /\ \E ok \in BOOLEAN :
         LET run == [runs[r] EXCEPT !.transcribeCalls = @ + 1]
         IN  runs' = [runs EXCEPT ![r] =
               IF ok
               THEN Goto([run EXCEPT !.text = AudioObjects[run.capture.audio_path]],
                         "saveTranscript")
               ELSE Throw([run EXCEPT !.transcribeError = "Failed to transcribe audio"])]
    /\ UNCHANGED <<captures, transcripts, legacyNotes, noteVars, libVars, guardVars>>

\* mutant: the transcript insert is left out
SaveTranscript_NoInsert(r) ==
    /\ runs[r].pc = "saveTranscript"
    /\ runs' = [runs EXCEPT ![r] =
          Goto([runs[r] EXCEPT !.savedTranscript = TRUE], "structure")]
    /\ UNCHANGED <<captures, transcripts, legacyNotes, noteVars, libVars, guardVars>>

\* mutant: the transcript table is written anew with the row of this run
SaveTranscript_Replaces(r) ==
    /\ runs[r].pc = "saveTranscript"
    /\ \E ok \in BOOLEAN :
         LET run == runs[r]
         IN  IF ok
             THEN /\ transcripts' = (run.captureId :> run.text)
                  /\ runs' = [runs EXCEPT ![r] =
                        Goto([run EXCEPT !.savedTranscript = TRUE], "structure")]
             ELSE /\ runs' = [runs EXCEPT ![r] = Throw(run)]
                  /\ UNCHANGED transcripts
    /\ UNCHANGED <<captures, legacyNotes, noteVars, libVars, guardVars>>

\* 5. persist the transcript; capture_id is the primary key of transcripts
SaveTranscript(r) ==
    /\ runs[r].pc = "saveTranscript"
    /\ \E ok \in BOOLEAN :
         LET run == runs[r]
         IN  IF ok /\ run.captureId \notin DOMAIN transcripts
             THEN /\ transcripts' = transcripts @@ (run.captureId :> run.text)
                  /\ runs' = [runs EXCEPT ![r] =
                        Goto([run EXCEPT !.savedTranscript = TRUE], "structure")]
             ELSE /\ runs' = [runs EXCEPT ![r] = Throw(run)]
                  /\ UNCHANGED transcripts
    /\ UNCHANGED <<captures, legacyNotes, noteVars, libVars, guardVars>>

\* 2. (text capture) download the text from the "notes" bucket
DownloadText(r) ==
    /\ runs[r].pc = "downloadText"
    /\ \E ok \in BOOLEAN :
         LET run == runs[r]
         IN  runs' = [runs EXCEPT ![r] =
               IF ok /\ run.capture.text_path \in DOMAIN TextObjects
               THEN Goto([run EXCEPT !.text = TextObjects[run.capture.text_path]],
                         "structure")
               ELSE Throw(run)]
    /\ UNCHANGED <<captures, transcripts, legacyNotes, noteVars, libVars, guardVars>>

\* mutant: a failure of the structuring call is thrown on instead of being
\* replaced by the fallback outline
StructureStep_Rethrows(r) ==
    /\ runs[r].pc = "structure"
    /\ \E response \in StructureResponses :
         runs' = [runs EXCEPT ![r] =
            IF response.kind = "json" /\ IsOutlineJson(response.value)
            THEN Goto([runs[r] EXCEPT !.outline = response.value], "render")
            ELSE Throw(runs[r])]
    /\ UNCHANGED <<captures, transcripts, legacyNotes, noteVars, libVars, guardVars>>

\* 6. structure the outline with GPT
StructureStep(r) ==
    /\ runs[r].pc = "structure"
    /\ \E response \in StructureResponses :
         runs' = [runs EXCEPT ![r] =
            Goto([runs[r] EXCEPT !.outline = structureOutline(runs[r].text, response)],
                 "render")]
    /\ UNCHANGED <<captures, transcripts, legacyNotes, noteVars, libVars, guardVars>>

\* mutant: a failure of the rendering call is thrown on instead of being
\* replaced by the local fallback document
RenderStep_Rethrows(r) ==
    /\ runs[r].pc = "render"
    /\ \E response \in RenderResponses(runs[r].outline) :
         runs' = [runs EXCEPT ![r] =
            IF response.kind = "json" /\ "type" \in DOMAIN response.value
            THEN Goto([runs[r] EXCEPT !.editorJson = response.value], "insertNote")
            ELSE Throw(runs[r])]
    /\ UNCHANGED <<captures, transcripts, legacyNotes, noteVars, libVars, guardVars>>

\* 7. generate the editor JSON
RenderStep(r) ==
    /\ runs[r].pc = "render"
    /\ \E response \in RenderResponses(runs[r].outline) :
         runs' = [runs EXCEPT ![r] =
            Goto([runs[r] EXCEPT !.editorJson =
                     outlineToEditorJson(runs[r].outline, response)],
                 "insertNote")]
    /\ UNCHANGED <<captures, transcripts, legacyNotes, noteVars, libVars, guardVars>>

\* mutant: the row is inserted and the step throws all the same
InsertNote_ThrowsAfterInsert(r) ==
    /\ runs[r].pc = "insertNote"
    /\ \E ok \in BOOLEAN :
         LET run == runs[r]
         IN  /\ legacyNotes' = Append(legacyNotes,
                    [user_id |-> run.userId, capture_id |-> run.captureId,
                     title |-> run.outline.title, outline_json |-> run.outline,
                     editor_json |-> run.editorJson, tags |-> run.outline.tags])
             /\ runs' = [runs EXCEPT ![r] =
                    IF ok THEN Return(run, Len(legacyNotes) + 1) ELSE Throw(run)]
    /\ UNCHANGED <<captures, transcripts, noteVars, libVars, guardVars>>

\* 8. create the note; an error of the insert is thrown
InsertNote(r) ==
    /\ runs[r].pc = "insertNote"
    /\ \E ok \in BOOLEAN :
         LET run == runs[r]
         IN  IF ok
             THEN /\ legacyNotes' = Append(legacyNotes,
                        [user_id |-> run.userId, capture_id |-> run.captureId,
                         title |-> run.outline.title, outline_json |-> run.outline,
                         editor_json |-> run.editorJson, tags |-> run.outline.tags])
                  /\ runs' = [runs EXCEPT ![r] = Return(run, Len(legacyNotes) + 1)]
             ELSE /\ runs' = [runs EXCEPT ![r] = Throw(run)]
                  /\ UNCHANGED legacyNotes
    /\ UNCHANGED <<captures, transcripts, noteVars, libVars, guardVars>>

\* mutant: the heading is left out of the degraded document
MinimalEditorJson_NoHeading(fallbackText) ==
    Doc(<<Paragraph(fallbackText)>>)

\* the document of the degraded note: a heading and the raw text
MinimalEditorJson(fallbackText) ==
    Doc(<<Heading(1, Label("Processing Failed")), Paragraph(fallbackText)>>)

ProcessingFailedOutline ==
    [title |-> Label("Processing Failed"), highlights |-> <<>>, insights |-> <<>>,
     open_questions |-> <<>>, next_steps |-> <<>>, tags |-> <<>>, lang |-> "en"]

ProcessingFailedNote(run) ==
    [user_id |-> run.userId, capture_id |-> run.captureId,
     title |-> Label("Processing Failed"), outline_json |-> ProcessingFailedOutline,
     editor_json |-> MinimalEditorJson(run.fallbackText), tags |-> <<>>]

\* if (fallbackText) { insert } else fall through to the final throw
WithFallbackText(run, t) ==
    IF t # <<>> THEN [run EXCEPT !.pc = "recInsert", !.fallbackText = t] ELSE Fail(run)

\* mutant: the read of the transcript is not subject to row level security
RecoverTranscript_AnyCapture(r) ==
    /\ runs[r].pc = "recTranscript"
    /\ \E ok \in BOOLEAN :
         LET run == runs[r]
         IN  runs' = [runs EXCEPT ![r] =
               IF ok /\ run.captureId \in DOMAIN transcripts
               THEN WithFallbackText(run, transcripts[run.captureId])
               ELSE [run EXCEPT !.pc = "recCapture"]]
    /\ UNCHANGED <<captures, transcripts, legacyNotes, noteVars, libVars, guardVars>>

\* catch block: read the transcript of the capture, by capture id
RecoverTranscript(r) ==
    /\ runs[r].pc = "recTranscript"
    /\ \E ok \in BOOLEAN :
         LET run == runs[r]
         IN  runs' = [runs EXCEPT ![r] =
               IF /\ ok
                  /\ run.captureId \in DOMAIN transcripts
                  /\ VisibleCapture(run.userId, run.captureId)
               THEN WithFallbackText(run, transcripts[run.captureId])
               ELSE [run EXCEPT !.pc = "recCapture"]]
    /\ UNCHANGED <<captures, transcripts, legacyNotes, noteVars, libVars, guardVars>>

\* catch block: no transcript, read text_path of the capture, by capture id
RecoverCapture(r) ==
    /\ runs[r].pc = "recCapture"
    /\ \E ok \in BOOLEAN :
         LET run == runs[r]
         IN  runs' = [runs EXCEPT ![r] =
               IF /\ ok
                  /\ VisibleCapture(run.userId, run.captureId)
                  /\ captures[run.captureId].text_path # ""
               THEN [run EXCEPT !.pc = "recDownload",
                                !.capture = captures[run.captureId]]
               ELSE Fail(run)]
    /\ UNCHANGED <<captures, transcripts, legacyNotes, noteVars, libVars, guardVars>>

\* catch block: download the text file again
RecoverDownload(r) ==
    /\ runs[r].pc = "recDownload"
    /\ \E ok \in BOOLEAN :
         LET run == runs[r]
         IN  runs' = [runs EXCEPT ![r] =
               IF ok /\ run.capture.text_path \in DOMAIN TextObjects
               THEN WithFallbackText(run, TextObjects[run.capture.text_path])
               ELSE Fail(run)]
    /\ UNCHANGED <<captures, transcripts, legacyNotes, noteVars, libVars, guardVars>>

\* mutant: the degraded note replaces the latest note instead of being added
RecoverInsert_Overwrites(r) ==
    /\ runs[r].pc = "recInsert"
    /\ LET run == runs[r]
           at == IF legacyNotes = <<>> THEN 1 ELSE Len(legacyNotes)
       IN  /\ legacyNotes' = [i \in 1..at |->
                  IF i = at THEN ProcessingFailedNote(run) ELSE legacyNotes[i]]
           /\ runs' = [runs EXCEPT ![r] = Return(run, at)]
    /\ UNCHANGED <<captures, transcripts, noteVars, libVars, guardVars>>

\* catch block: insert the minimal note with the raw text
RecoverInsert(r) ==
    /\ runs[r].pc = "recInsert"
    /\ \E ok \in BOOLEAN :
         LET run == runs[r]
         IN  IF ok
             THEN /\ legacyNotes' = Append(legacyNotes, ProcessingFailedNote(run))
                  /\ runs' = [runs EXCEPT ![r] = Return(run, Len(legacyNotes) + 1)]
             ELSE /\ runs' = [runs EXCEPT ![r] = Fail(run)]
                  /\ UNCHANGED legacyNotes
    /\ UNCHANGED <<captures, transcripts, noteVars, libVars, guardVars>>

\* processCapture({ userId, captureId }) called for an existing capture by
\* a request of user u, after the commit of the capture
InvokeProcessCapture(u, c) ==
    /\ Len(runs) = 1
    /\ c \in 1..Len(captures)
    /\ runs' = Append(runs, NewRun(u, c))
    /\ UNCHANGED <<captures, transcripts, legacyNotes, noteVars, libVars, guardVars>>

processCapture(r) ==
    \/ FetchCapture(r)
    \/ DownloadAudio(r)
    \/ TranscribeAudio(r)
    \/ SaveTranscript(r)
    \/ DownloadText(r)
    \/ StructureStep(r)
    \/ RenderStep(r)
    \/ InsertNote(r)
    \/ RecoverTranscript(r)
    \/ RecoverCapture(r)
    \/ RecoverDownload(r)
    \/ RecoverInsert(r)

-----------------------------------------------------------------------------
(* Note-centric flow: POST /api/notes, PATCH /api/notes/:id *)

JsonNull == [null |-> TRUE]          \* JSON null / SQL NULL in a JSON column

\* request bodies of POST /api/notes that pass createNoteBodySchema; a field
\* that is not in the record is undefined
CreateBodies ==
    { [title |-> <<"N">>],
      [title |-> <<"N">>, content_text |-> <<>>],
      [title |-> <<"N">>, content_text |-> <<"x">>] }

\* POST /api/notes
CreateNote(u, body) ==
    /\ Len(notes) < MaxNotes
    /\ LET hasText == "content_text" \in DOMAIN body /\ body.content_text # <<>>
           editorJson == IF hasText
                         THEN Doc(<<Paragraph(body.content_text)>>)
                         ELSE Doc(<<>>)
       IN  notes' = Append(notes,
              [user_id |-> u,
               title |-> body.title,
               content_text |-> IF hasText THEN body.content_text ELSE NULL,
               editor_json |-> editorJson,
               outline_json |-> JsonNull,
               tags |-> IF "tags" \in DOMAIN body THEN body.tags ELSE <<>>,
               updated_at |-> now])
    /\ lastWriter' = Append(lastWriter, 0)
    /\ initialText' = Append(initialText, notes'[Len(notes')].content_text)
    /\ UNCHANGED <<text_inputs, audio_files, audio_transcripts, noteRuns, patches,
                   legacyVars, libVars, guardVars>>

\* request bodies of PATCH /api/notes/:id that pass patchNoteBodySchema;
\* editor_json is z.any(): a document, any other JSON object, or null
PatchBodies ==
    { [content_text |-> <<"e">>],
      [title |-> <<"M">>, tags |-> <<"work">>],
      [editor_json |-> Doc(<<Paragraph(<<"e">>)>>)],
      [editor_json |-> Paragraph(<<"e">>)],
      [editor_json |-> JsonNull],
      [content_text |-> <<>>, editor_json |-> Doc(<<>>)] }

PatchFields == {"title", "content_text", "editor_json", "tags"}

\* mutant: an update of content_text rebuilds the document from the text
ApplyUpdates_RebuildsDoc(row, updates) ==
    [f \in DOMAIN row |->
        IF f = "updated_at" THEN now
        ELSE IF f \in DOMAIN updates THEN updates[f]
        ELSE IF f = "editor_json" /\ "content_text" \in DOMAIN updates
        THEN Doc(<<Paragraph(updates.content_text)>>)
        ELSE row[f]]

\* the row after UPDATE ... SET updates: the trigger notes_touch sets
\* updated_at to the time of the update
ApplyUpdates(row, updates) ==
    [f \in DOMAIN row |->
        IF f = "updated_at" THEN now
        ELSE IF f \in DOMAIN updates THEN updates[f]
        ELSE row[f]]

\* column constraints of the notes table: title and editor_json are NOT NULL
RowAccepted(row) == row.editor_json # JsonNull

\* PATCH /api/notes/:id: the update is scoped to the id and the caller; a
\* body without an updatable field is answered 400, a rejected update 500
PatchNote(u, id, body) ==
    /\ patches < MaxPatches
    /\ DOMAIN body \cap PatchFields # {}
    /\ patches' = patches + 1
    /\ notes' = [n \in 1..Len(notes) |->
          IF n = id /\ notes[n].user_id = u /\ RowAccepted(ApplyUpdates(notes[n], body))
          THEN ApplyUpdates(notes[n], body)
          ELSE notes[n]]
    /\ UNCHANGED <<text_inputs, audio_files, audio_transcripts, noteRuns, lastWriter, initialText, legacyVars, libVars, guardVars>>

-----------------------------------------------------------------------------
(* Note-centric flow: the commit routes and the contribution pipeline.      *)
(* processTextToNote and processAudioToNote are not among the sources; the  *)
(* pipeline steps below follow sections 4.4, 4.5 and 7 of the              *)
(* specification.                                                           *)

\* storage keys committed in the specifications below
TextKeys == {"t1", "t2", "t0"}
AudioKeys == {"a1"}
MixedTextKeys == {"t2"}

\* mutant: the new text replaces the existing content
Merge_DropsExisting(existing, new) == new

\* mutant: the texts are joined by a single line break
Merge_SingleBreak(existing, new) ==
    IF existing = NULL \/ existing = <<>> THEN new ELSE existing \o <<"\n">> \o new

\* mutant: an empty new text leaves the existing content as it is
Merge_SkipsEmptyNew(existing, new) ==
    IF new = <<>> THEN existing
    ELSE IF existing = NULL \/ existing = <<>> THEN new
    ELSE existing \o BlankLine \o new

\* Note Aggregator: the existing content and the new text joined by a blank
\* line; empty or absent existing text is a no-op prefix
Merge(existing, new) ==
    IF existing = NULL \/ existing = <<>> THEN new ELSE existing \o BlankLine \o new

\* index of the first blank line of a text, 0 when it has none
RECURSIVE FirstBlankLine(_, _)
FirstBlankLine(t, i) ==
    IF i + 1 > Len(t) THEN 0
    ELSE IF t[i] = "\n" /\ t[i + 1] = "\n" THEN i
    ELSE FirstBlankLine(t, i + 1)

\* the text split on blank lines, empty pieces dropped
RECURSIVE SplitParagraphs(_)
SplitParagraphs(t) ==
    LET i == FirstBlankLine(t, 1)
    IN  IF i = 0 THEN (IF t = <<>> THEN <<>> ELSE <<t>>)
        ELSE (IF i = 1 THEN <<>> ELSE <<SubSeq(t, 1, i - 1)>>)
             \o SplitParagraphs(SubSeq(t, i + 2, Len(t)))

\* text path: every paragraph of the merged text as a plain paragraph node
ParagraphsDoc(merged) == Doc(MapItems(SplitParagraphs(merged), Paragraph))

TitleChars == 100

\* fallback title: the first characters of the first non-empty segment
FallbackTitle(merged) ==
    LET ps == SplitParagraphs(merged)
    IN  IF ps = <<>> THEN <<>>
        ELSE SubSeq(ps[1], 1, IF Len(ps[1]) < TitleChars THEN Len(ps[1]) ELSE TitleChars)

NoteStageOf(pc) ==
    CASE pc = "fetch" -> "Fetching"
      [] pc \in {"download", "transcribe", "saveTranscript"} -> "Extracting"
      [] pc = "merge" -> "Merging"
      [] pc \in {"structure", "render"} -> "Structuring"
      [] pc = "persist" -> "Persisting"

NewNoteRun(kind, u, n, input) ==
    [kind |-> kind, userId |-> u, noteId |-> n, inputId |-> input, pc |-> "fetch",
     path |-> "", text |-> <<>>, existing |-> NULL, title |-> NULL, merged |-> <<>>,
     outline |-> Unset, editorJson |-> Unset,
     trail |-> <<"Fetching">>, overlapped |-> FALSE]

\* existing is kept after the run as a record of what its Merging read saw

Active(run) == run.pc \notin {"done", "failed"}

\* a new run overlaps the runs on the same note that have not finished
StartRun(run) ==
    LET others == {r \in 1..Len(noteRuns) :
                      noteRuns[r].noteId = run.noteId /\ Active(noteRuns[r])}
    IN  Append([r \in 1..Len(noteRuns) |->
                   IF r \in others THEN [noteRuns[r] EXCEPT !.overlapped = TRUE]
                   ELSE noteRuns[r]],
               [run EXCEPT !.overlapped = others # {}])

\* the audio_files row the audio commit route inserts: the insert names no
\* order_index, so the row gets the default of the column
AudioFileRow(n, key) == [note_id |-> n, storage_path |-> key, order_index |-> 0]

\* POST /api/notes/:id/text/commit: the note must exist and belong to the
\* caller (otherwise 404); insert the text_input row, then processTextToNote
\* mutant: the run is started and the text_inputs row is not written
CommitText_RunsFirst(u, n, key) ==
    /\ Len(noteRuns) < MaxNoteRuns
    /\ n \in 1..Len(notes)
    /\ notes[n].user_id = u
    /\ text_inputs' = text_inputs
    /\ noteRuns' = StartRun(NewNoteRun("text", u, n, Len(text_inputs) + 1))
    /\ UNCHANGED <<notes, audio_files, audio_transcripts, patches, lastWriter, initialText, legacyVars, libVars, guardVars>>

CommitText(u, n, key) ==
    /\ Len(noteRuns) < MaxNoteRuns
    /\ n \in 1..Len(notes)
    /\ notes[n].user_id = u
    /\ text_inputs' = Append(text_inputs, [note_id |-> n, storage_path |-> key])
    /\ noteRuns' = StartRun(NewNoteRun("text", u, n, Len(text_inputs) + 1))
    /\ UNCHANGED <<notes, audio_files, audio_transcripts, patches, lastWriter, initialText, legacyVars, libVars, guardVars>>

\* POST /api/notes/:id/audio/commit: the same with an audio_files row and
\* processAudioToNote
CommitAudio(u, n, key) ==
    /\ Len(noteRuns) < MaxNoteRuns
    /\ n \in 1..Len(notes)
    /\ notes[n].user_id = u
    /\ audio_files' = Append(audio_files, AudioFileRow(n, key))
    /\ noteRuns' = StartRun(NewNoteRun("audio", u, n, Len(audio_files) + 1))
    /\ UNCHANGED <<notes, text_inputs, audio_transcripts, patches, lastWriter, initialText, legacyVars, libVars, guardVars>>

NoteGoto(run, pc) ==
    [run EXCEPT !.pc = pc, !.trail = IF Last(@) = NoteStageOf(pc) THEN @
                                     ELSE Append(@, NoteStageOf(pc))]

\* the run raises its typed failure to the caller
NoteFail(run) ==
    [run EXCEPT !.pc = "failed", !.trail = Append(@, "Failed"),
                !.path = "", !.text = <<>>, !.merged = <<>>, !.title = NULL,
                !.outline = Unset, !.editorJson = Unset]

\* the run returns to the caller
NoteReturn(run) ==
    [run EXCEPT !.pc = "done", !.trail = Append(@, "Done"),
                !.path = "", !.text = <<>>, !.merged = <<>>, !.title = NULL,
                !.outline = Unset, !.editorJson = Unset]

Inputs(run) == IF run.kind = "audio" THEN audio_files ELSE text_inputs

\* Fetching: the contribution's row, scoped to the owning note and the caller
ContributionFetch(r) ==
    /\ noteRuns[r].pc = "fetch"
    /\ \E ok \in BOOLEAN :
         LET run == noteRuns[r]
             rows == Inputs(run)
         IN  noteRuns' = [noteRuns EXCEPT ![r] =
               IF /\ ok
                  /\ run.inputId \in 1..Len(rows)
                  /\ rows[run.inputId].note_id = run.noteId
                  /\ notes[run.noteId].user_id = run.userId
               THEN NoteGoto([run EXCEPT !.path = rows[run.inputId].storage_path],
                             "download")
               ELSE NoteFail(run)]
    /\ UNCHANGED <<notes, text_inputs, audio_files, audio_transcripts, patches,
                   lastWriter, initialText, legacyVars, libVars, guardVars>>

\* Extracting: download the bytes; a text file is decoded, audio goes on to
\* transcription
ContributionDownload(r) ==
    /\ noteRuns[r].pc = "download"
    /\ \E ok \in BOOLEAN :
         LET run == noteRuns[r]
         IN  noteRuns' = [noteRuns EXCEPT ![r] =
               IF run.kind = "audio"
               THEN IF ok /\ run.path \in DOMAIN AudioObjects
                    THEN NoteGoto(run, "transcribe")
                    ELSE NoteFail(run)
               ELSE IF ok /\ run.path \in DOMAIN TextObjects
                    THEN NoteGoto([run EXCEPT !.text = TextObjects[run.path]], "merge")
                    ELSE NoteFail(run)]
    /\ UNCHANGED <<notes, text_inputs, audio_files, audio_transcripts, patches,
                   lastWriter, initialText, legacyVars, libVars, guardVars>>

\* Extracting (audio): transcription; a failure aborts the run
ContributionTranscribe(r) ==
    /\ noteRuns[r].pc = "transcribe"
    /\ \E ok \in BOOLEAN :
         LET run == noteRuns[r]
         IN  noteRuns' = [noteRuns EXCEPT ![r] =
               IF ok
               THEN NoteGoto([run EXCEPT !.text = AudioObjects[run.path]],
                             "saveTranscript")
               ELSE NoteFail(run)]
    /\ UNCHANGED <<notes, text_inputs, audio_files, audio_transcripts, patches,
                   lastWriter, initialText, legacyVars, libVars, guardVars>>

\* Extracting (audio): the transcript is persisted before Merging
ContributionSaveTranscript(r) ==
    /\ noteRuns[r].pc = "saveTranscript"
    /\ \E ok \in BOOLEAN :
         LET run == noteRuns[r]
         IN  IF ok /\ run.inputId \notin DOMAIN audio_transcripts
             THEN /\ audio_transcripts' = audio_transcripts @@ (run.inputId :> run.text)
                  /\ noteRuns' = [noteRuns EXCEPT ![r] = NoteGoto(run, "merge")]
             ELSE /\ noteRuns' = [noteRuns EXCEPT ![r] = NoteFail(run)]
                  /\ UNCHANGED audio_transcripts
    /\ UNCHANGED <<notes, text_inputs, audio_files, patches, lastWriter, initialText, legacyVars, libVars, guardVars>>

\* Merging: read the persisted note and merge the new text into its content
ContributionMerge(r) ==
    /\ noteRuns[r].pc = "merge"
    /\ LET run == noteRuns[r]
           note == notes[run.noteId]
       IN  noteRuns' = [noteRuns EXCEPT ![r] =
              NoteGoto([run EXCEPT !.existing = note.content_text,
                                   !.title = note.title,
                                   !.merged = Merge(note.content_text, run.text)],
                       "structure")]
    /\ UNCHANGED <<notes, text_inputs, audio_files, audio_transcripts, patches,
                   lastWriter, initialText, legacyVars, libVars, guardVars>>

\* Structuring: audio runs structure the merged text (never an error, the
\* fallback outline instead); text runs split it into paragraphs
ContributionStructure(r) ==
    /\ noteRuns[r].pc = "structure"
    /\ LET run == noteRuns[r]
       IN  IF run.kind = "audio"
           THEN \E response \in StructureResponses :
                  noteRuns' = [noteRuns EXCEPT ![r] =
                     NoteGoto([run EXCEPT !.outline =
                                  structureOutline(run.merged, response)], "render")]
           ELSE noteRuns' = [noteRuns EXCEPT ![r] =
                     NoteGoto([run EXCEPT !.editorJson = ParagraphsDoc(run.merged)],
                              "persist")]
    /\ UNCHANGED <<notes, text_inputs, audio_files, audio_transcripts, patches,
                   lastWriter, initialText, legacyVars, libVars, guardVars>>

\* Structuring (audio): render the outline (never an error, the local
\* fallback renderer instead)
ContributionRender(r) ==
    /\ noteRuns[r].pc = "render"
    /\ \E response \in RenderResponses(noteRuns[r].outline) :
         noteRuns' = [noteRuns EXCEPT ![r] =
            NoteGoto([noteRuns[r] EXCEPT !.editorJson =
                         outlineToEditorJson(noteRuns[r].outline, response)],
                     "persist")]
    /\ UNCHANGED <<notes, text_inputs, audio_files, audio_transcripts, patches,
                   lastWriter, initialText, legacyVars, libVars, guardVars>>

\* mutant: the derived title is written whatever title the note has
PersistedRow_OverwritesTitle(note, run) ==
    [note EXCEPT
       !.updated_at = now,
       !.content_text = run.merged,
       !.editor_json = run.editorJson,
       !.outline_json = IF run.kind = "audio" THEN run.outline ELSE @,
       !.tags = IF run.kind = "audio" THEN run.outline.tags ELSE @,
       !.title = IF run.kind = "audio" THEN run.outline.title
                 ELSE FallbackTitle(run.merged)]

\* mutant: a text run clears the outline and the tags of the note
PersistedRow_TextClearsOutline(note, run) ==
    [note EXCEPT
       !.updated_at = now,
       !.content_text = run.merged,
       !.editor_json = run.editorJson,
       !.outline_json = IF run.kind = "audio" THEN run.outline ELSE JsonNull,
       !.tags = IF run.kind = "audio" THEN run.outline.tags ELSE <<>>,
       !.title = IF run.title = NULL \/ run.title = <<>>
                 THEN (IF run.kind = "audio" THEN run.outline.title
                       ELSE FallbackTitle(run.merged))
                 ELSE @]

\* the note row a run writes back: content_text and editor_doc, for audio
\* also outline and tags; a title only when the note has none
PersistedRow(note, run) ==
    [note EXCEPT
       !.updated_at = now,
       !.content_text = run.merged,
       !.editor_json = run.editorJson,
       !.outline_json = IF run.kind = "audio" THEN run.outline ELSE @,
       !.tags = IF run.kind = "audio" THEN run.outline.tags ELSE @,
       !.title = IF run.title = NULL \/ run.title = <<>>
                 THEN (IF run.kind = "audio" THEN run.outline.title
                       ELSE FallbackTitle(run.merged))
                 ELSE @]

\* mutant: the write appends to the content_text the row holds at the time of
\* the write instead of writing what the run merged
ContributionPersist_AppendsAtWrite(r) ==
    /\ noteRuns[r].pc = "persist"
    /\ LET run == noteRuns[r]
       IN  /\ notes' = [notes EXCEPT ![run.noteId] =
                  [PersistedRow(@, run) EXCEPT
                      !.content_text = Merge(notes[run.noteId].content_text, run.text)]]
           /\ noteRuns' = [noteRuns EXCEPT ![r] = NoteReturn(run)]
           /\ lastWriter' = [lastWriter EXCEPT ![run.noteId] = r]
    /\ UNCHANGED <<text_inputs, audio_files, audio_transcripts, patches, initialText,
                   legacyVars, libVars, guardVars>>

\* mutant: the write keeps a content_text that has changed since the
\* Merging read
ContributionPersist_KeepsNewerText(r) ==
    /\ noteRuns[r].pc = "persist"
    /\ LET run == noteRuns[r]
       IN  /\ notes' = [notes EXCEPT ![run.noteId] =
                  IF notes[run.noteId].content_text = run.existing
                  THEN PersistedRow(@, run)
                  ELSE [PersistedRow(@, run) EXCEPT
                           !.content_text = notes[run.noteId].content_text]]
           /\ noteRuns' = [noteRuns EXCEPT ![r] = NoteReturn(run)]
           /\ lastWriter' = [lastWriter EXCEPT ![run.noteId] = r]
    /\ UNCHANGED <<text_inputs, audio_files, audio_transcripts, patches, initialText,
                   legacyVars, libVars, guardVars>>

\* Persisting: write the note back; a failed write is fatal
ContributionPersist(r) ==
    /\ noteRuns[r].pc = "persist"
    /\ \E ok \in BOOLEAN :
         LET run == noteRuns[r]
         IN  IF ok
             THEN /\ notes' = [notes EXCEPT ![run.noteId] = PersistedRow(@, run)]
                  /\ noteRuns' = [noteRuns EXCEPT ![r] = NoteReturn(run)]
                  /\ lastWriter' = [lastWriter EXCEPT ![run.noteId] = r]
             ELSE /\ noteRuns' = [noteRuns EXCEPT ![r] = NoteFail(run)]
                  /\ UNCHANGED <<notes, lastWriter>>
    /\ UNCHANGED <<text_inputs, audio_files, audio_transcripts, patches, initialText,
                   legacyVars, libVars, guardVars>>

\* the steps of a text contribution's run
TextRun(r) ==
    \/ ContributionFetch(r)
    \/ ContributionDownload(r)
    \/ ContributionMerge(r)
    \/ ContributionStructure(r)
    \/ ContributionPersist(r)

ContributionRun(r) ==
    \/ ContributionFetch(r)
    \/ ContributionDownload(r)
    \/ ContributionTranscribe(r)
    \/ ContributionSaveTranscript(r)
    \/ ContributionMerge(r)
    \/ ContributionStructure(r)
    \/ ContributionRender(r)
    \/ ContributionPersist(r)

-----------------------------------------------------------------------------
(* Calls of the functions of lib/openai.ts *)

MaxCalls == 2    \* calls of the functions of lib/openai.ts

\* no call has been made
NoCall == [fn |-> "none", n |-> 0, pc |-> "returned"]

\* the call, if any, has returned or raised
Settled == call.pc \in {"returned", "raised"}

\* transcripts handed to structureOutline
TranscriptTexts == { <<>>, <<"a">>, <<"a", "\n", "\n", "b">> }

\* outlines handed to outlineToEditorJson
Outlines ==
    [title : { <<"T">> },
     highlights : { <<>>, << <<"h">> >> },
     insights : { <<>>, << <<"i">> >> },
     open_questions : { <<>>, << <<"q">> >>, << <<"q", "?">> >>,
                        << <<"q">>, <<"r", "?">> >> },
     next_steps : { <<>>, << [text |-> <<"s">>, due |-> JsonNull] >> },
     tags : { <<>>, <<"work">> },
     lang : {"en"}]

\* a call of structureOutline: the catch block returns, it never throws
StructureCall(transcriptText, response) ==
    /\ Settled
    /\ call.n < MaxCalls
    /\ call' = [fn |-> "structureOutline", n |-> call.n + 1, pc |-> "returned",
                input |-> transcriptText, response |-> response,
                result |-> structureOutline(transcriptText, response)]
    /\ UNCHANGED <<tmpFiles, legacyVars, noteVars, guardVars>>

\* a document the model may answer that does not follow the prompt: the
\* sections in another order, the questions as they are in the outline
UnfaithfulDoc(outline) ==
    Doc(<<Heading(1, outline.title)>>
        \o Section("Next Steps", TaskList(MapItems(outline.next_steps, StepItem)))
        \o Section("Open Questions", BulletList(MapItems(outline.open_questions, ListItem)))
        \o Section("Highlights", BulletList(MapItems(outline.highlights, ListItem))))

\* what the chat completion may answer to the rendering prompt
RenderAnswers(outline) ==
    RenderResponses(outline) \cup { [kind |-> "json", value |-> UnfaithfulDoc(outline)] }

\* a call of outlineToEditorJson: primary is TRUE when the answer of the
\* model was returned, FALSE when the catch block built the document
RenderCall(outline, response) ==
    /\ Settled
    /\ call.n < MaxCalls
    /\ call' = [fn |-> "outlineToEditorJson", n |-> call.n + 1, pc |-> "returned",
                input |-> outline, response |-> response,
                primary |-> (response.kind = "json" /\ "type" \in DOMAIN response.value),
                result |-> outlineToEditorJson(outline, response)]
    /\ UNCHANGED <<tmpFiles, legacyVars, noteVars, guardVars>>

\* the size ceiling of the transcription capability, in bytes (25 MiB)
maxSize == 25 * 1024 * 1024

\* sizes of the audio buffers handed to transcribeAudio
AudioSizes == {0, 12, maxSize - 1, maxSize, maxSize + 1}

AudioMimes == {"audio/webm", "audio/mpeg"}

\* outcomes of openai.audio.transcriptions.create
TranscriptionOutcomes ==
    {"ok", "invalid_format", "status_401", "status_429", "connection", "other"}

\* the InternalServerError the outer catch block throws for a caught error
TranscriptionError(cause) ==
    CASE cause = "invalid_format" -> "Invalid audio format"
      [] cause = "status_401" -> "Invalid OpenAI API key"
      [] cause = "status_429" -> "OpenAI API rate limit exceeded"
      [] cause = "connection" -> "OpenAI API connection failed"
      [] OTHER -> "Failed to transcribe audio"

\* mutant: the buffer is staged whatever its size
TranscribeStart_NoSizeCheck(size, mime) ==
    /\ Settled
    /\ call.n < MaxCalls
    /\ call' = [fn |-> "transcribeAudio", n |-> call.n + 1, size |-> size, mime |-> mime,
                file |-> call.n + 1, staged |-> FALSE, apiCalls |-> 0, unlinks |-> 0,
                unlinkOk |-> FALSE, cause |-> "", error |-> "", pc |-> "writeFile"]
    /\ UNCHANGED <<tmpFiles, legacyVars, noteVars, guardVars>>

\* transcribeAudio up to its first await: format detection, the size check
\* and the name of the temporary file
TranscribeStart(size, mime) ==
    /\ Settled
    /\ call.n < MaxCalls
    /\ LET new == [fn |-> "transcribeAudio", n |-> call.n + 1, size |-> size,
                   mime |-> mime, file |-> call.n + 1, staged |-> FALSE,
                   apiCalls |-> 0, unlinks |-> 0, unlinkOk |-> FALSE,
                   cause |-> "", error |-> "", pc |-> "writeFile"]
       IN  call' = IF size > maxSize
                   THEN [new EXCEPT !.cause = "too_large",
                                    !.error = TranscriptionError("too_large"),
                                    !.pc = "raised"]
                   ELSE new
    /\ UNCHANGED <<tmpFiles, legacyVars, noteVars, guardVars>>

\* await writeFile(tempFilePath, audioBuffer): a failed write may leave a
\* partial file behind; control goes to the finally block
WriteTempFile ==
    /\ call.fn = "transcribeAudio" /\ call.pc = "writeFile"
    /\ \E ok \in BOOLEAN, partial \in BOOLEAN :
         /\ call' = IF ok
                    THEN [call EXCEPT !.staged = TRUE, !.pc = "create"]
                    ELSE [call EXCEPT !.staged = TRUE, !.cause = "write", !.pc = "unlink"]
         /\ tmpFiles' = IF ok \/ partial THEN tmpFiles \cup {call.file} ELSE tmpFiles
    /\ UNCHANGED <<legacyVars, noteVars, guardVars>>

\* mutant: a failed call of the transcription capability is made once more
CreateTranscription_Retries ==
    /\ call.fn = "transcribeAudio" /\ call.pc = "create"
    /\ \E outcome \in TranscriptionOutcomes :
         call' = [call EXCEPT !.apiCalls = @ + 1, !.cause = outcome,
                              !.pc = IF outcome # "ok" /\ call.apiCalls = 0
                                     THEN "create" ELSE "unlink"]
    /\ UNCHANGED <<tmpFiles, legacyVars, noteVars, guardVars>>

\* await openai.audio.transcriptions.create: one call, no retry
CreateTranscription ==
    /\ call.fn = "transcribeAudio" /\ call.pc = "create"
    /\ \E outcome \in TranscriptionOutcomes :
         call' = [call EXCEPT !.apiCalls = @ + 1, !.cause = outcome, !.pc = "unlink"]
    /\ UNCHANGED <<tmpFiles, legacyVars, noteVars, guardVars>>

\* mutant: the temporary file is removed on the success path only
UnlinkTempFile_OnSuccessOnly ==
    /\ call.fn = "transcribeAudio" /\ call.pc = "unlink"
    /\ IF call.cause = "ok"
       THEN /\ tmpFiles' = tmpFiles \ {call.file}
            /\ call' = [call EXCEPT !.unlinks = @ + 1, !.unlinkOk = TRUE, !.pc = "returned"]
       ELSE /\ tmpFiles' = tmpFiles
            /\ call' = [call EXCEPT !.error = TranscriptionError(call.cause),
                                    !.pc = "raised"]
    /\ UNCHANGED <<legacyVars, noteVars, guardVars>>

\* finally: await unlink(tempFilePath); a failing unlink is logged and
\* swallowed; then the result is returned or the error goes to the outer catch
UnlinkTempFile ==
    /\ call.fn = "transcribeAudio" /\ call.pc = "unlink"
    /\ \E ok \in BOOLEAN :
         LET removed == ok /\ call.file \in tmpFiles
         IN  /\ tmpFiles' = IF removed THEN tmpFiles \ {call.file} ELSE tmpFiles
             /\ call' = [call EXCEPT
                            !.unlinks = @ + 1,
                            !.unlinkOk = removed,
                            !.error = IF call.cause = "ok" THEN ""
                                      ELSE TranscriptionError(call.cause),
                            !.pc = IF call.cause = "ok" THEN "returned" ELSE "raised"]
    /\ UNCHANGED <<legacyVars, noteVars, guardVars>>

(* Calls of merge *)

\* contents of a note and texts of contributions handed to merge
ExistingTexts == {NULL, <<>>, <<"x">>, <<"x">> \o BlankLine \o <<"y">>}
NewTexts == {<<>>, <<"a">>, <<"b">>, <<"a", "\n", "c">>, BlankLine}

\* two texts merged into a content one after the other, next to one merge of
\* the two texts joined by a blank line
MergeCalls(existing, a, b) ==
    /\ Settled
    /\ call.n < MaxCalls
    /\ call' = [fn |-> "merge", n |-> call.n + 1, pc |-> "returned",
                existing |-> existing, a |-> a, b |-> b,
                first |-> Merge(existing, a),
                second |-> Merge(Merge(existing, a), b),
                joined |-> Merge(existing, a \o BlankLine \o b)]
    /\ UNCHANGED <<tmpFiles, legacyVars, noteVars, guardVars>>

-----------------------------------------------------------------------------
(* Format Resolver: detectFormatFromMagicBytes inside transcribeAudio *)

\* a buffer is a sequence of bytes (0..255); a mime type is a sequence of
\* words with "/" between them
Mime(type, subtype) == <<type, "/", subtype>>

\* buffer.slice(a, b)
Slice(buffer, a, b) ==
    LET last == IF b < Len(buffer) THEN b ELSE Len(buffer)
    IN  IF a >= last THEN <<>> ELSE [i \in 1..(last - a) |-> buffer[a + i]]

\* buffer.toString('hex'): two hexadecimal digits per byte, as numbers 0..15
ToHex(buffer) ==
    [i \in 1..(2 * Len(buffer)) |->
        IF i % 2 = 1 THEN buffer[(i + 1) \div 2] \div 16 ELSE buffer[i \div 2] % 16]

\* buffer.toString('ascii').toLowerCase(): the highest bit of each byte is
\* dropped, then A-Z become a-z; characters as their codes
ToAsciiLower(buffer) ==
    [i \in 1..Len(buffer) |->
        LET c == buffer[i] % 128
        IN  IF c >= 65 /\ c <= 90 THEN c + 32 ELSE c]

\* String.prototype.includes
Includes(s, pattern) ==
    \E at \in 0..(Len(s) - Len(pattern)) :
        \A j \in 1..Len(pattern) : s[at + j] = pattern[j]

\* the signatures, as the hexadecimal digits of the source's literals
Hex000000 == <<0, 0, 0, 0, 0, 0>>
HexFtyp == <<6, 6, 7, 4, 7, 9, 7, 0>>           \* '66747970'
HexM44 == <<4, 13, 3, 4, 3, 4, 2, 0>>           \* '4d343420'
AsciiM4a == <<109, 52, 97>>                     \* 'm4a'
HexEbml == <<1, 10, 4, 5, 13, 15, 10, 3>>       \* '1a45dfa3'
HexRiff == <<5, 2, 4, 9, 4, 6, 4, 6>>           \* '52494646'
HexFffb == <<15, 15, 15, 11>>                   \* 'fffb'
HexId3 == <<4, 9, 4, 4, 3, 3>>                  \* '494433'

\* mime.toLowerCase(), on the words of the mime types used here
LowerWord(w) ==
    CASE w = "AUDIO" -> "audio"
      [] w = "MPEG" -> "mpeg"
      [] OTHER -> w

ToLowerCase(mime) == [i \in 1..Len(mime) |-> LowerWord(mime[i])]

\* the record mimeToExtension; "" stands for a missing entry
mimeToExtension(mime) ==
    CASE mime = Mime("audio", "webm") -> "webm"
      [] mime = Mime("audio", "m4a") -> "m4a"
      [] mime = Mime("audio", "mp4") -> "mp4"
      [] mime = Mime("audio", "mpeg") -> "mp3"
      [] mime = Mime("audio", "mp3") -> "mp3"
      [] mime = Mime("audio", "wav") -> "wav"
      [] mime = Mime("audio", "x-wav") -> "wav"
      [] mime = Mime("audio", "flac") -> "flac"
      [] mime = Mime("audio", "ogg") -> "ogg"
      [] mime = Mime("audio", "oga") -> "oga"
      [] OTHER -> ""

\* mime.split('/')[1]; "" stands for undefined and for the empty string
SplitSecond(mime) ==
    IF Len(mime) >= 3 /\ mime[2] = "/" /\ mime[3] # "/" THEN mime[3] ELSE ""

\* a || b || 'webm'
DefaultExtension(mime) ==
    IF mimeToExtension(ToLowerCase(mime)) # "" THEN mimeToExtension(ToLowerCase(mime))
    ELSE IF SplitSecond(mime) # "" THEN SplitSecond(mime)
    ELSE "webm"

\* the five signature checks, in the order of the source
MatchSignature(buffer, mime) ==
    LET hex == ToHex(Slice(buffer, 0, 12))
        ascii == ToAsciiLower(Slice(buffer, 4, 12))
    IN  IF /\ StartsWith(hex, Hex000000) /\ Includes(hex, HexFtyp)
           /\ (Includes(hex, HexM44) \/ Includes(ascii, AsciiM4a))
        THEN [mime |-> Mime("audio", "m4a"), extension |-> "m4a"]
        ELSE IF StartsWith(hex, Hex000000) /\ Includes(hex, HexFtyp)
        THEN [mime |-> Mime("audio", "mp4"), extension |-> "mp4"]
        ELSE IF StartsWith(hex, HexEbml)
        THEN [mime |-> Mime("audio", "webm"), extension |-> "webm"]
        ELSE IF StartsWith(hex, HexRiff)
        THEN [mime |-> Mime("audio", "wav"), extension |-> "wav"]
        ELSE IF StartsWith(hex, HexFffb) \/ StartsWith(hex, HexId3)
        THEN [mime |-> Mime("audio", "mpeg"), extension |-> "mp3"]
        ELSE [mime |-> mime, extension |-> DefaultExtension(mime)]

\* mutant: a declared type that is in mimeToExtension is taken as it is
detectFormatFromMagicBytes_TrustsDeclared(buffer, mime) ==
    IF Len(buffer) < 12
    THEN [mime |-> Mime("audio", "webm"), extension |-> "webm"]
    ELSE IF mimeToExtension(ToLowerCase(mime)) # ""
    THEN [mime |-> mime, extension |-> DefaultExtension(mime)]
    ELSE MatchSignature(buffer, mime)

\* mutant: the signatures are looked for in a buffer of any length
detectFormatFromMagicBytes_NoLengthCheck(buffer, mime) == MatchSignature(buffer, mime)

detectFormatFromMagicBytes(buffer, mime) ==
    IF Len(buffer) < 12
    THEN [mime |-> Mime("audio", "webm"), extension |-> "webm"]
    ELSE MatchSignature(buffer, mime)

\* the buffers handed to the resolver: tails after the first four bytes
ZeroTail == <<0, 0, 0, 0, 0, 0, 0, 0>>
FtypIsom == <<102, 116, 121, 112, 105, 115, 111, 109>>     \* "ftypisom"
FtypM4A == <<102, 116, 121, 112, 77, 52, 65, 32>>          \* "ftypM4A "
FtypM44 == <<102, 116, 121, 112, 77, 52, 52, 32>>          \* "ftypM44 "

Buffers ==
    { <<>>,
      <<82, 73, 70, 70>>,                                   \* "RIFF" alone
      <<26, 69, 223, 163, 1, 0, 0, 0, 0, 0, 0>>,            \* EBML header, 11 bytes
      <<0, 0, 0, 32>> \o FtypIsom,
      <<0, 0, 0, 32>> \o FtypM4A,
      <<0, 0, 0, 28>> \o FtypM44,
      <<0, 0, 0, 6>> \o <<103, 71, 151, 0, 0, 0, 0, 0>>,    \* '66747970' across bytes
      <<0, 0, 0, 32>> \o <<102, 116, 121, 112, 205, 180, 193, 32>>, \* "M4A", high bits set
      <<26, 69, 223, 163>> \o ZeroTail,
      <<82, 73, 70, 70>> \o ZeroTail,
      <<255, 251, 144, 0>> \o ZeroTail,
      <<73, 68, 51, 4>> \o ZeroTail,
      <<79, 103, 103, 83>> \o ZeroTail,                     \* "OggS": no signature
      <<79, 103, 103, 83>> \o ZeroTail \o <<7>>,            \* the same prefix, longer
      <<102, 76, 97, 67>> \o ZeroTail,                      \* "fLaC": no signature
      <<0, 0, 1, 32>> \o FtypIsom }                         \* ftyp after 00 00 01

DeclaredMimes ==
    { Mime("audio", "webm"), Mime("audio", "mpeg"), Mime("audio", "ogg"),
      Mime("AUDIO", "MPEG"), Mime("audio", "x-custom"), <<"audio">> }

\* one call of detectFormatFromMagicBytes; prev keeps the call before it
DetectCall(buffer, mime) ==
    /\ Settled
    /\ call.n < MaxCalls
    /\ call' = [fn |-> "detectFormatFromMagicBytes", n |-> call.n + 1, pc |-> "returned",
                buffer |-> buffer, mime |-> mime,
                detected |-> detectFormatFromMagicBytes(buffer, mime),
                prev |-> IF call.fn = "detectFormatFromMagicBytes"
                         THEN <<[buffer |-> call.buffer, mime |-> call.mime,
                                 detected |-> call.detected]>>
                         ELSE <<>>]
    /\ UNCHANGED <<tmpFiles, legacyVars, noteVars, guardVars>>

MaxTranscribeRuns == 1    \* audio captures whose transcription is followed step by step

\* step 4 of processCapture, the call of transcribeAudio taken step by step:
\* the run hands the downloaded buffer and the mime type to transcribeAudio
\* (one call of transcribeAudio is followed at a time)
TranscribeInvoke(r, size, mime) ==
    /\ runs[r].pc = "transcribe"
    /\ \A r2 \in 1..Len(runs) : runs[r2].pc # "transcribing"
    /\ call.n < MaxCalls
    /\ LET new == [fn |-> "transcribeAudio", n |-> call.n + 1, size |-> size,
                   mime |-> mime, file |-> call.n + 1, staged |-> FALSE,
                   apiCalls |-> 0, unlinks |-> 0, unlinkOk |-> FALSE,
                   cause |-> "", error |-> "", pc |-> "writeFile"]
       IN  call' = IF size > maxSize
                   THEN [new EXCEPT !.cause = "too_large",
                                    !.error = TranscriptionError("too_large"),
                                    !.pc = "raised"]
                   ELSE new
    /\ runs' = [runs EXCEPT ![r].pc = "transcribing", ![r].transcribeCalls = @ + 1]
    /\ UNCHANGED <<captures, transcripts, legacyNotes, tmpFiles, noteVars, guardVars>>

\* transcribeAudio has returned or thrown: the run takes the text or goes to
\* the catch block of processCapture
TranscribeResume(r) ==
    /\ runs[r].pc = "transcribing"
    /\ Settled
    /\ LET run == [runs[r] EXCEPT !.pc = "transcribe"]
       IN  runs' = [runs EXCEPT ![r] =
             IF call.pc = "returned"
             THEN Goto([run EXCEPT !.text = AudioObjects[run.capture.audio_path]],
                       "saveTranscript")
             ELSE Throw([run EXCEPT !.transcribeError = call.error])]
    /\ UNCHANGED <<captures, transcripts, legacyNotes, libVars, noteVars, guardVars>>

-----------------------------------------------------------------------------
(* Throughput Guard: checkRateLimit and the preset rate limiters *)

MaxTicks == 1          \* seconds the clock advances
MaxStoreFailures == 1  \* requests whose call to the store fails or is skipped

\* requests to a rate-limited route in progress at a time
Slots == {1, 2}

\* preset rate limiters
rateLimits == [commit |-> [max |-> 15, windowSec |-> 60],
               presign |-> [max |-> 30, windowSec |-> 60],
               regenerate |-> [max |-> 10, windowSec |-> 60]]

\* the clock starts in the last second of a window
StartOfClock == rateLimits.commit.windowSec - 1

Seconds == StartOfClock..(StartOfClock + MaxTicks)

\* the keys the commit routes pass to checkRateLimit: `text_commit:${userId}`
\* and `audio_commit:${userId}`
RateKey(class, u) == <<class, u>>

RateClasses == {"text_commit", "audio_commit"}

RateKeys == { RateKey(class, u) : class \in RateClasses, u \in NoteUsers }

\* `ratelimit:${key}:${Math.floor(now / config.windowSec)}`
WindowKey(key, t, config) == [key |-> key, window |-> t \div config.windowSec]

\* mutant: the counter is set to 1 instead of being incremented
Incr_Resets(store, wk, t, config) ==
    [k \in DOMAIN store \cup {wk} |->
        IF k = wk THEN [count |-> 1, expireAt |-> t + 2 * config.windowSec] ELSE store[k]]

\* the pipeline [INCR windowKey, EXPIRE windowKey 2 * windowSec], executed
\* by the store as one atomic step at time t
Incr(store, wk, t, config) ==
    [k \in DOMAIN store \cup {wk} |->
        IF k = wk
        THEN [count |-> (IF wk \in DOMAIN store THEN store[wk].count ELSE 0) + 1,
              expireAt |-> t + 2 * config.windowSec]
        ELSE store[k]]

\* mutant: one request more than the ceiling is let through
OverLimit_OffByOne(count, config) == count > config.max + 1

\* typeof count === 'number' && count > config.max
OverLimit(count, config) == count > config.max

\* outcomes of the call to the store: a response with the count, a response
\* whose body holds no number, a non-OK response, a thrown error
StoreOutcomes == {"ok", "bad_json", "not_ok", "throws"}

\* the store is configured and answers every call with its count
StoreAvailable == {"ok"}

Idle == [pc |-> "idle"]

\* history: one more request of this key and second let through or denied
Logged(log, key, t, field) ==
    [log EXCEPT ![<<key, t>>] =
        IF field = "ok" THEN [@ EXCEPT !.ok = @ + 1] ELSE [@ EXCEPT !.denied = @ + 1]]

\* requests of a key, among those whose clock read is in secs, that were
\* let through (field "ok") or denied (field "denied")
RECURSIVE Count(_, _, _)
Count(key, secs, field) ==
    IF secs = {} THEN 0
    ELSE LET t == CHOOSE t \in secs : TRUE
         IN  (IF field = "ok" THEN admitted[<<key, t>>].ok ELSE admitted[<<key, t>>].denied)
               + Count(key, secs \ {t}, field)

\* the seconds of window w
SecondsOf(w, config) == { t \in Seconds : t \div config.windowSec = w }

AdmittedIn(key, w, config) == Count(key, SecondsOf(w, config), "ok")

DeniedIn(key, w, config) == Count(key, SecondsOf(w, config), "denied")

InFlight(key, w, config) ==
    { s \in Slots :
        /\ requests[s].pc = "fetch"
        /\ requests[s].key = key
        /\ requests[s].at \div config.windowSec = w }

\* requests let through without a count of the store
\* a request arrives at a commit route and checkRateLimit runs up to its
\* await: without the configuration of the store it returns at once
\* (configs: whether the environment may hold the configuration of the store)
RequestArrives(s, class, u, configs) ==
    LET key == RateKey(class, u)
        config == rateLimits.commit
        w == now \div config.windowSec
    IN  /\ requests[s].pc = "idle"
        /\ AdmittedIn(key, w, config) + DeniedIn(key, w, config)
             + Cardinality(InFlight(key, w, config)) < config.max + Cardinality(Slots)
        /\ \E configured \in configs :
             /\ ~configured => failedOpen < MaxStoreFailures
             /\ IF configured
                THEN /\ requests' = [requests EXCEPT ![s] =
                        [pc |-> "fetch", class |-> class, user |-> u, key |-> key,
                         at |-> now, outcome |-> "", count |-> 0]]
                     /\ UNCHANGED <<admitted, failedOpen>>
                ELSE /\ requests' = [requests EXCEPT ![s] =
                        [pc |-> "admitted", class |-> class, user |-> u, key |-> key,
                         at |-> now, outcome |-> "unconfigured", count |-> 0]]
                     /\ admitted' = Logged(admitted, key, now, "ok")
                     /\ failedOpen' = failedOpen + 1
        /\ UNCHANGED <<now, redis, legacyVars, noteVars, libVars>>

\* mutant: the catch block swallows the RateLimitError as well
StoreCall_SwallowsLimit(s, outcomes) ==
    /\ requests[s].pc = "fetch"
    /\ \E outcome \in outcomes, applied \in BOOLEAN :
         /\ outcome \in {"ok", "bad_json"} => applied
         /\ outcome # "ok" => failedOpen < MaxStoreFailures
         /\ LET req == requests[s]
                config == rateLimits.commit
                wk == WindowKey(req.key, req.at, config)
                store == IF applied THEN Incr(redis, wk, now, config) ELSE redis
                count == IF applied THEN store[wk].count ELSE 0
            IN  /\ redis' = store
                /\ requests' = [requests EXCEPT ![s] =
                      [req EXCEPT !.pc = "admitted", !.outcome = outcome, !.count = count]]
                /\ admitted' = Logged(admitted, req.key, req.at, "ok")
                /\ failedOpen' = failedOpen + (IF outcome = "ok" THEN 0 ELSE 1)
    /\ UNCHANGED <<now, legacyVars, noteVars, libVars>>

\* the call to the store and what checkRateLimit does with its answer: a
\* count above the ceiling throws RateLimitError, everything else returns
\* (outcomes: the outcomes the call to the store may have)
StoreCall(s, outcomes) ==
    /\ requests[s].pc = "fetch"
    /\ \E outcome \in outcomes, applied \in BOOLEAN :
         /\ outcome \in {"ok", "bad_json"} => applied
         /\ outcome # "ok" => failedOpen < MaxStoreFailures
         /\ LET req == requests[s]
                config == rateLimits.commit
                wk == WindowKey(req.key, req.at, config)
                store == IF applied THEN Incr(redis, wk, now, config) ELSE redis
                count == IF applied THEN store[wk].count ELSE 0
                over == outcome = "ok" /\ OverLimit(count, config)
            IN  /\ redis' = store
                /\ requests' = [requests EXCEPT ![s] =
                      [req EXCEPT !.pc = IF over THEN "rejected" ELSE "admitted",
                                  !.outcome = outcome, !.count = count]]
                /\ admitted' = Logged(admitted, req.key, req.at,
                                      IF over THEN "denied" ELSE "ok")
                /\ failedOpen' = failedOpen + (IF outcome = "ok" THEN 0 ELSE 1)
    /\ UNCHANGED <<now, legacyVars, noteVars, libVars>>

\* checkRateLimit has returned to its caller
Admitted(s) ==
    /\ requests[s].pc = "admitted"
    /\ requests' = [requests EXCEPT ![s] = Idle]
    /\ UNCHANGED <<now, redis, admitted, failedOpen, legacyVars, noteVars, libVars>>

\* the RateLimitError reaches the catch block of the route: response 429
Respond429(s) ==
    /\ requests[s].pc = "rejected"
    /\ requests' = [requests EXCEPT ![s] = Idle]
    /\ UNCHANGED <<now, redis, admitted, failedOpen, legacyVars, noteVars, libVars>>

MaxGuardedRuns == 1    \* contributions committed through the rate-limited route

\* mutant: the route goes on to its body after the rate-limit error as well
CommitBody_Unguarded(s) ==
    /\ requests[s].pc \in {"admitted", "rejected"}
    /\ requests[s].class = "text_commit"
    /\ requests' = [requests EXCEPT ![s] = Idle]
    /\ \/ UNCHANGED noteVars
       \/ \E n \in 1..Len(notes), key \in MixedTextKeys :
             /\ Len(noteRuns) < MaxGuardedRuns
             /\ notes[n].user_id = requests[s].user
             /\ text_inputs' = Append(text_inputs, [note_id |-> n, storage_path |-> key])
             /\ noteRuns' = StartRun(NewNoteRun("text", requests[s].user, n,
                                                Len(text_inputs) + 1))
             /\ UNCHANGED <<notes, audio_files, audio_transcripts, patches, lastWriter,
                            initialText>>
    /\ UNCHANGED <<now, redis, admitted, failedOpen, legacyVars, libVars>>

\* POST /api/notes/:id/text/commit after checkRateLimit has returned: an
\* invalid note id or body (400) and a note that does not exist or is not
\* the caller's (404) end the request; otherwise the text_input row is
\* inserted and processTextToNote is called
CommitBody(s) ==
    /\ requests[s].pc = "admitted"
    /\ requests[s].class = "text_commit"
    /\ requests' = [requests EXCEPT ![s] = Idle]
    /\ \/ UNCHANGED noteVars
       \/ \E n \in 1..Len(notes), key \in MixedTextKeys :
             /\ Len(noteRuns) < MaxGuardedRuns
             /\ notes[n].user_id = requests[s].user
             /\ text_inputs' = Append(text_inputs, [note_id |-> n, storage_path |-> key])
             /\ noteRuns' = StartRun(NewNoteRun("text", requests[s].user, n,
                                                Len(text_inputs) + 1))
             /\ UNCHANGED <<notes, audio_files, audio_transcripts, patches, lastWriter,
                            initialText>>
    /\ UNCHANGED <<now, redis, admitted, failedOpen, legacyVars, libVars>>

\* duration_s of the commit body, a non-negative integer or left out
Absent == 0 - 1
Durations == {Absent, 0, 120, 121}

\* body.duration_s || 0
DurationOf(d) == IF d = Absent THEN 0 ELSE d

\* mutant: the handler awaits processCapture whatever the duration and
\* answers 202 afterwards
LegacyCommit_AwaitsAll(s, u, key, d) ==
    /\ requests[s] = Idle
    /\ Len(runs) < MaxRuns
    /\ captures' = Append(captures, [user_id |-> u, audio_path |-> key, text_path |-> ""])
    /\ runs' = Append(runs, NewRun(u, Len(captures) + 1))
    /\ requests' = [requests EXCEPT ![s] =
          [pc |-> "awaiting", duration |-> d, run |-> Len(runs) + 1,
           status |-> 0, processing |-> "", runAtResponse |-> ""]]
    /\ UNCHANGED <<transcripts, legacyNotes, now, redis, admitted, failedOpen,
                   noteVars, libVars>>

\* POST /api/capture/commit from the insert of the capture on: the capture
\* row is inserted and processCapture is called; up to 120 seconds the
\* handler awaits it, above that it answers 202 at once and the promise
\* goes on by itself, its rejection caught and logged
LegacyCommit(s, u, key, d) ==
    /\ requests[s] = Idle
    /\ Len(runs) < MaxRuns
    /\ captures' = Append(captures, [user_id |-> u, audio_path |-> key, text_path |-> ""])
    /\ runs' = Append(runs, NewRun(u, Len(captures) + 1))
    /\ requests' = [requests EXCEPT ![s] =
          IF DurationOf(d) <= 120
          THEN [pc |-> "awaiting", duration |-> d, run |-> Len(runs) + 1,
                status |-> 0, processing |-> "", runAtResponse |-> ""]
          ELSE [pc |-> "responded", duration |-> d, run |-> Len(runs) + 1,
                status |-> 202, processing |-> "queued", runAtResponse |-> "fetch"]]
    /\ UNCHANGED <<transcripts, legacyNotes, now, redis, admitted, failedOpen,
                   noteVars, libVars>>

\* the awaited processCapture has returned (200 with the note id) or thrown
\* (errorToResponse: 500)
LegacyRespond(s) ==
    /\ requests[s].pc = "awaiting"
    /\ runs[requests[s].run].pc \in {"done", "failed"}
    /\ requests' = [requests EXCEPT ![s] =
          [@ EXCEPT !.pc = "responded",
                    !.status = IF runs[requests[s].run].pc = "done" THEN 200 ELSE 500,
                    !.runAtResponse = runs[requests[s].run].pc]]
    /\ UNCHANGED <<now, redis, admitted, failedOpen, legacyVars, noteVars, libVars>>

\* the note a request of user u for id sees: the queries of the routes are
\* scoped by .eq('id', id).eq('user_id', userId)
VisibleNote(u, id) == id \in 1..Len(notes) /\ notes[id].user_id = u

\* the request made last on connection s and its answer
Answer(op, u, id, status, returned) ==
    [pc |-> "responded", op |-> op, user |-> u, note |-> id, status |-> status,
     returned |-> returned]

\* GET /api/notes/:id
GetNote(s, u, id) ==
    /\ requests' = [requests EXCEPT ![s] =
          IF VisibleNote(u, id) THEN Answer("GET", u, id, 200, notes[id])
          ELSE Answer("GET", u, id, 404, JsonNull)]
    /\ UNCHANGED <<now, redis, admitted, failedOpen, legacyVars, noteVars, libVars>>

\* the orders in which a query may return rows: ORDER BY order_index leaves
\* the order of rows with equal order_index open
OrderedBy(ids) ==
    { order \in [1..Cardinality(ids) -> ids] :
        /\ \A i, j \in DOMAIN order : i # j => order[i] # order[j]
        /\ \A i, j \in DOMAIN order :
              i < j => audio_files[order[i]].order_index <= audio_files[order[j]].order_index }

\* GET /api/notes/:id, the audio_files of its answer: the ids of the rows in
\* the order of the query
GetAudioFiles(s, u, id) ==
    /\ IF VisibleNote(u, id)
       THEN \E order \in OrderedBy({i \in 1..Len(audio_files) : audio_files[i].note_id = id}) :
               requests' = [requests EXCEPT ![s] = Answer("GET", u, id, 200, order)]
       ELSE requests' = [requests EXCEPT ![s] = Answer("GET", u, id, 404, <<>>)]
    /\ UNCHANGED <<now, redis, admitted, failedOpen, legacyVars, noteVars, libVars>>

\* mutant: the update is scoped to the id alone
PatchRequest_Unscoped(s, u, id, body) ==
    /\ patches < MaxPatches
    /\ DOMAIN body \cap PatchFields # {}
    /\ patches' = patches + 1
    /\ LET accepted == id \in 1..Len(notes) => RowAccepted(ApplyUpdates(notes[id], body))
       IN  /\ notes' = [n \in 1..Len(notes) |->
                 IF n = id /\ accepted THEN ApplyUpdates(notes[n], body) ELSE notes[n]]
           /\ requests' = [requests EXCEPT ![s] =
                 Answer("PATCH", u, id, IF accepted THEN 200 ELSE 500, JsonNull)]
    /\ UNCHANGED <<text_inputs, audio_files, audio_transcripts, noteRuns, lastWriter,
                   initialText, now, redis, admitted, failedOpen, legacyVars, libVars>>

\* PATCH /api/notes/:id with its answer: an update that matches no row is no
\* error and is answered { ok: true }
PatchRequest(s, u, id, body) ==
    /\ patches < MaxPatches
    /\ DOMAIN body \cap PatchFields # {}
    /\ patches' = patches + 1
    /\ LET accepted == VisibleNote(u, id) => RowAccepted(ApplyUpdates(notes[id], body))
       IN  /\ notes' = [n \in 1..Len(notes) |->
                 IF n = id /\ VisibleNote(u, id) /\ accepted
                 THEN ApplyUpdates(notes[n], body)
                 ELSE notes[n]]
           /\ requests' = [requests EXCEPT ![s] =
                 Answer("PATCH", u, id, IF accepted THEN 200 ELSE 500, JsonNull)]
    /\ UNCHANGED <<text_inputs, audio_files, audio_transcripts, noteRuns, lastWriter,
                   initialText, now, redis, admitted, failedOpen, legacyVars, libVars>>

\* POST /api/notes/:id/text/commit and POST /api/notes/:id/audio/commit from
\* the ownership check on: Not Found for a note the caller does not see,
\* otherwise the contribution row is inserted and the pipeline is called
\* (status 0: the answer depends on the run)
CommitRequest(s, kind, u, id, key) ==
    /\ Len(noteRuns) < MaxNoteRuns
    /\ IF VisibleNote(u, id)
       THEN /\ IF kind = "text"
               THEN /\ text_inputs' = Append(text_inputs,
                                             [note_id |-> id, storage_path |-> key])
                    /\ UNCHANGED audio_files
               ELSE /\ audio_files' = Append(audio_files, AudioFileRow(id, key))
                    /\ UNCHANGED text_inputs
            /\ noteRuns' = StartRun(NewNoteRun(kind, u, id,
                              IF kind = "text" THEN Len(text_inputs) + 1
                              ELSE Len(audio_files) + 1))
            /\ requests' = [requests EXCEPT ![s] = Answer(kind, u, id, 0, JsonNull)]
       ELSE /\ requests' = [requests EXCEPT ![s] = Answer(kind, u, id, 404, JsonNull)]
            /\ UNCHANGED <<text_inputs, audio_files, noteRuns>>
    /\ UNCHANGED <<notes, audio_transcripts, patches, lastWriter, initialText,
                   now, redis, admitted, failedOpen, legacyVars, libVars>>

MaxRegenCaptures == 1    \* captures committed next to the regenerate requests

\* outcomes of the checks before the note is read: the note id is no UUID
\* (400), the rate limit is exceeded (429), or the request goes on
RegenerateChecks == {"ok", "invalid_id", "rate_limited"}

\* the note of the capture-centric schema a request of user u for id sees
VisibleLegacyNote(u, id) == id \in 1..Len(legacyNotes) /\ legacyNotes[id].user_id = u

\* POST /api/note/:id/regenerate up to the call of structureOutline: the note
\* is read together with the transcript of its capture
RegenerateRead(s, u, id, check) ==
    /\ requests[s].pc \in {"idle", "responded"}
    /\ requests' = [requests EXCEPT ![s] =
          IF check = "invalid_id" THEN Answer("regenerate", u, id, 400, JsonNull)
          ELSE IF check = "rate_limited" THEN Answer("regenerate", u, id, 429, JsonNull)
          ELSE IF ~VisibleLegacyNote(u, id) THEN Answer("regenerate", u, id, 404, JsonNull)
          ELSE IF \/ legacyNotes[id].capture_id \notin DOMAIN transcripts
                  \/ transcripts[legacyNotes[id].capture_id] = <<>>
          THEN Answer("regenerate", u, id, 400, JsonNull)
          ELSE [Answer("regenerate", u, id, 0,
                       [current |-> [title |-> legacyNotes[id].title,
                                     outline_json |-> legacyNotes[id].outline_json,
                                     editor_json |-> legacyNotes[id].editor_json],
                        transcriptText |-> transcripts[legacyNotes[id].capture_id]])
                  EXCEPT !.pc = "structuring"]]
    /\ UNCHANGED <<now, redis, admitted, failedOpen, legacyVars, noteVars, libVars>>

\* mutant: the new outline is saved to the note
RegenerateRespond_Saves(s) ==
    /\ requests[s].pc = "structuring"
    /\ \E response \in StructureResponses :
         LET req == requests[s]
             newOutline == structureOutline(req.returned.transcriptText, response)
         IN  /\ requests' = [requests EXCEPT ![s] =
                   Answer("regenerate", req.user, req.note, 200,
                          [current |-> req.returned.current,
                           suggestions |-> [title |-> newOutline.title,
                                            outline_json |-> newOutline]])]
             /\ legacyNotes' = [legacyNotes EXCEPT ![req.note].outline_json = newOutline,
                                                   ![req.note].title = newOutline.title]
    /\ UNCHANGED <<captures, transcripts, runs, now, redis, admitted, failedOpen,
                   noteVars, libVars>>

\* structureOutline has returned (it never throws): the current values and
\* the suggestions are returned
RegenerateRespond(s) ==
    /\ requests[s].pc = "structuring"
    /\ \E response \in StructureResponses :
         LET req == requests[s]
             newOutline == structureOutline(req.returned.transcriptText, response)
         IN  requests' = [requests EXCEPT ![s] =
                Answer("regenerate", req.user, req.note, 200,
                       [current |-> req.returned.current,
                        suggestions |-> [title |-> newOutline.title,
                                         outline_json |-> newOutline]])]
    /\ UNCHANGED <<now, redis, admitted, failedOpen, legacyVars, noteVars, libVars>>

-----------------------------------------------------------------------------
(* The checks of the routes: authentication, rate limit, validation *)

audioMimeSchema == {"audio/webm", "audio/m4a", "audio/mp4", "audio/mpeg", "audio/wav"}

textMimeSchema == {"text/plain", "text/markdown"}

\* a request body that is no JSON: request.json() throws
NotJson == [notJson |-> TRUE]

createNoteBodySchema(body) ==
    /\ "title" \in DOMAIN body
    /\ Len(body.title) \in 1..255
    /\ "tags" \in DOMAIN body => Len(body.tags) <= 10

patchNoteBodySchema(body) ==
    /\ "title" \in DOMAIN body => Len(body.title) \in 1..255
    /\ "tags" \in DOMAIN body => Len(body.tags) <= 10

commitTextBodySchema(body) ==
    /\ "storageKey" \in DOMAIN body
    /\ body.storageKey # ""
    /\ "mime" \in DOMAIN body => body.mime \in textMimeSchema

commitAudioBodySchema(body) ==
    /\ "storageKey" \in DOMAIN body
    /\ body.storageKey # ""
    /\ "duration_s" \in DOMAIN body => body.duration_s >= 0
    /\ "mime" \in DOMAIN body
    /\ body.mime \in audioMimeSchema

addAudioBodySchema(body) ==
    /\ "filename" \in DOMAIN body
    /\ body.filename # ""
    /\ "mime" \in DOMAIN body
    /\ body.mime \in audioMimeSchema
    /\ "duration_s" \in DOMAIN body => body.duration_s >= 0

\* the schema of POST /api/capture/commit is not among the sources; its
\* test shows that a body without storageKey is rejected
commitBodySchema(body) == "storageKey" \in DOMAIN body

\* the :id parameter of a request: whether its text has the form of a UUID,
\* and the row of the table it names (a row that may not exist)
IdParam(uuid, row) == [uuid |-> uuid, row |-> row]

isValidUuid(id) == id.uuid

\* the routes, named by the class of their rate-limit key where they have one
Routes == {"create", "patch", "text_commit", "audio_commit", "audio", "regenerate", "commit"}

Range(f) == { f[i] : i \in DOMAIN f }

\* mutant: the text commit route validates the body after the row is written
RouteSteps_WriteFirst ==
    [create       |-> <<"auth", "body", "insert">>,
     patch        |-> <<"auth", "id", "body", "fields", "update">>,
     text_commit  |-> <<"auth", "ratelimit", "id", "note", "insert", "body", "pipeline">>,
     audio_commit |-> <<"auth", "ratelimit", "id", "body", "note", "insert", "pipeline">>,
     audio        |-> <<"auth", "ratelimit", "id", "note", "body", "sign">>,
     regenerate   |-> <<"auth", "id", "ratelimit", "note", "transcript", "structure">>,
     commit       |-> <<"auth", "ratelimit", "body", "insert", "pipeline">>]

\* the checks and effects of each route in the order of its handler
RouteSteps ==
    [create       |-> <<"auth", "body", "insert">>,
     patch        |-> <<"auth", "id", "body", "fields", "update">>,
     text_commit  |-> <<"auth", "ratelimit", "id", "body", "note", "insert", "pipeline">>,
     audio_commit |-> <<"auth", "ratelimit", "id", "body", "note", "insert", "pipeline">>,
     audio        |-> <<"auth", "ratelimit", "id", "note", "body", "sign">>,
     regenerate   |-> <<"auth", "id", "ratelimit", "note", "transcript", "structure">>,
     commit       |-> <<"auth", "ratelimit", "body", "insert", "pipeline">>]

\* the preset rate limiter a route passes to checkRateLimit
LimitOf(op) ==
    CASE op \in {"text_commit", "audio_commit", "commit"} -> rateLimits.commit
      [] op = "audio" -> rateLimits.presign
      [] op = "regenerate" -> rateLimits.regenerate

\* the store after checkRateLimit of a request of route op by user u
Counted(op, u) == Incr(redis, WindowKey(RateKey(op, u), now, LimitOf(op)), now, LimitOf(op))

CountOf(store, op, u) ==
    LET wk == WindowKey(RateKey(op, u), now, LimitOf(op))
    IN  IF wk \in DOMAIN store THEN store[wk].count ELSE 0

\* parseBody with the schema of the route
parseBody(op, body) ==
    /\ "notJson" \notin DOMAIN body
    /\ CASE op = "create" -> createNoteBodySchema(body)
         [] op = "patch" -> patchNoteBodySchema(body)
         [] op = "text_commit" -> commitTextBodySchema(body)
         [] op = "audio_commit" -> commitAudioBodySchema(body)
         [] op = "audio" -> addAudioBodySchema(body)
         [] op = "commit" -> commitBodySchema(body)

\* the update object PATCH builds from the parsed body
Updates(body) == [f \in DOMAIN body \cap PatchFields |-> body[f]]

\* whether a step of the handler lets the request go on
Passes(step, op, in) ==
    CASE step = "auth" -> in.auth
      [] step = "ratelimit" -> ~OverLimit(CountOf(Counted(op, in.user), op, in.user), LimitOf(op))
      [] step = "id" -> isValidUuid(in.id)
      [] step = "body" -> parseBody(op, in.body)
      [] step = "fields" -> DOMAIN Updates(in.body) # {}
      [] step = "note" -> IF op = "regenerate" THEN VisibleLegacyNote(in.user, in.id.row)
                          ELSE VisibleNote(in.user, in.id.row)
      [] step = "transcript" ->
            /\ legacyNotes[in.id.row].capture_id \in DOMAIN transcripts
            /\ transcripts[legacyNotes[in.id.row].capture_id] # <<>>
      [] step = "update" ->
            VisibleNote(in.user, in.id.row)
               => RowAccepted(ApplyUpdates(notes[in.id.row], Updates(in.body)))
      [] OTHER -> TRUE

\* the status of the error a failed step throws (errorToResponse)
FailureStatus(step) ==
    CASE step = "auth" -> 401
      [] step = "ratelimit" -> 429
      [] step \in {"id", "body", "fields", "transcript"} -> 400
      [] step = "note" -> 404
      [] OTHER -> 500

\* the steps a request goes through: up to its first failed step
RECURSIVE Walk(_, _, _)
Walk(op, in, i) ==
    IF i > Len(RouteSteps[op]) THEN RouteSteps[op]
    ELSE IF Passes(RouteSteps[op][i], op, in) THEN Walk(op, in, i + 1)
    ELSE SubSeq(RouteSteps[op], 1, i)

Completed(op, in, steps) == Passes(steps[Len(steps)], op, in)

\* one request to a route, from requireUser to the call of the pipeline
\* (status 0: the answer of a commit route depends on the run)
Handle(s, op, in) ==
    LET steps == Walk(op, in, 1)
        done == Completed(op, in, steps)
        wrote == "insert" \in Range(steps) \/ (done /\ op = "patch")
    IN  /\ requests' = [requests EXCEPT ![s] =
              [pc |-> "responded", op |-> op, user |-> in.user, note |-> in.id.row,
               status |-> IF ~done THEN FailureStatus(steps[Len(steps)])
                          ELSE IF "pipeline" \in Range(steps) THEN 0 ELSE 200,
               returned |-> [steps |-> steps, in |-> in]]]
        /\ redis' = IF "ratelimit" \in Range(steps) THEN Counted(op, in.user) ELSE redis
        /\ "ratelimit" \in Range(steps) => CountOf(redis, op, in.user) <= LimitOf(op).max
        /\ IF wrote /\ op = "create"
           THEN /\ Len(notes) < MaxNotes
                /\ LET hasText == "content_text" \in DOMAIN in.body
                                     /\ in.body.content_text # <<>>
                   IN  notes' = Append(notes,
                          [user_id |-> in.user,
                           title |-> in.body.title,
                           content_text |-> IF hasText THEN in.body.content_text ELSE NULL,
                           editor_json |-> IF hasText
                                           THEN Doc(<<Paragraph(in.body.content_text)>>)
                                           ELSE Doc(<<>>),
                           outline_json |-> JsonNull,
                           tags |-> IF "tags" \in DOMAIN in.body THEN in.body.tags
                                    ELSE <<>>,
                           updated_at |-> now])
                /\ lastWriter' = Append(lastWriter, 0)
                /\ initialText' = Append(initialText, notes'[Len(notes')].content_text)
                /\ patches' = patches
           ELSE IF wrote /\ op = "patch"
           THEN /\ patches < MaxPatches
                /\ patches' = patches + 1
                /\ notes' = [n \in 1..Len(notes) |->
                      IF n = in.id.row /\ VisibleNote(in.user, n)
                      THEN ApplyUpdates(notes[n], Updates(in.body))
                      ELSE notes[n]]
                /\ UNCHANGED <<lastWriter, initialText>>
           ELSE UNCHANGED <<notes, lastWriter, initialText, patches>>
        /\ IF wrote /\ op = "text_commit"
           THEN /\ Len(noteRuns) < MaxNoteRuns
                /\ text_inputs' = Append(text_inputs,
                      [note_id |-> in.id.row, storage_path |-> in.body.storageKey])
                /\ noteRuns' = IF "pipeline" \in Range(steps)
                               THEN StartRun(NewNoteRun("text", in.user, in.id.row,
                                                        Len(text_inputs) + 1))
                               ELSE noteRuns
                /\ UNCHANGED audio_files
           ELSE IF wrote /\ op = "audio_commit"
           THEN /\ Len(noteRuns) < MaxNoteRuns
                /\ audio_files' = Append(audio_files,
                                         AudioFileRow(in.id.row, in.body.storageKey))
                /\ noteRuns' = StartRun(NewNoteRun("audio", in.user, in.id.row,
                                                   Len(audio_files) + 1))
                /\ UNCHANGED text_inputs
           ELSE UNCHANGED <<text_inputs, audio_files, noteRuns>>
        /\ IF wrote /\ op = "commit"
           THEN /\ Len(runs) < MaxRegenCaptures
                /\ captures' = Append(captures,
                      [user_id |-> in.user, audio_path |-> in.body.storageKey,
                       text_path |-> ""])
                /\ runs' = Append(runs, NewRun(in.user, Len(captures) + 1))
           ELSE UNCHANGED <<captures, runs>>
        /\ UNCHANGED <<transcripts, legacyNotes, audio_transcripts, now, admitted,
                       failedOpen, libVars>>

\* the :id parameters of the requests: the first row of the table, and a
\* text that is no UUID
IdParams == {IdParam(TRUE, 1), IdParam(FALSE, 0)}

NoBody == [none |-> TRUE]

\* request bodies sent to each route: one the schema accepts, and bodies
\* with a missing field, an invalid field, or no JSON
BodiesOf(op) ==
    CASE op = "create" ->
            { [title |-> <<"N">>, content_text |-> <<"x">>],
              [content_text |-> <<"x">>],
              [title |-> <<>>],
              NotJson }
      [] op = "patch" ->
            { [title |-> <<"M">>, tags |-> <<"work">>],
              [content_text |-> <<"e">>],
              [title |-> <<>>],
              [other |-> <<"x">>],
              [editor_json |-> JsonNull] }
      [] op = "text_commit" ->
            { [storageKey |-> "t2"],
              [mime |-> "text/plain"],
              [storageKey |-> "t2", mime |-> "audio/webm"],
              [storageKey |-> ""] }
      [] op = "audio_commit" ->
            { [storageKey |-> "a1", mime |-> "audio/webm"],
              [storageKey |-> "a1"],
              [storageKey |-> "a1", mime |-> "audio/ogg"],
              [storageKey |-> "a1", mime |-> "audio/webm", duration_s |-> Absent] }
      [] op = "audio" ->
            { [filename |-> "f.webm", mime |-> "audio/webm"],
              [mime |-> "audio/webm"],
              [filename |-> "f.mp3", mime |-> "audio/invalid"] }
      [] op = "regenerate" -> { NoBody }
      [] op = "commit" ->
            { [storageKey |-> "a1"],
              [duration_s |-> 60] }

\* the requests sent to route op, with and without a session; a route
\* without an :id parameter is sent one id, which it does not read
InputsOf(op) ==
    { [auth |-> auth, user |-> u, id |-> id, body |-> body] :
        auth \in BOOLEAN, u \in NoteUsers,
        id \in IF "id" \in Range(RouteSteps[op]) THEN IdParams ELSE {IdParam(TRUE, 1)},
        body \in BodiesOf(op) }

\* time passes; the store drops the keys that have expired
Tick ==
    /\ now + 1 \in Seconds
    /\ now' = now + 1
    /\ redis' = [k \in { k \in DOMAIN redis : redis[k].expireAt > now + 1 } |-> redis[k]]
    /\ UNCHANGED <<requests, admitted, failedOpen, legacyVars, noteVars, libVars>>

-----------------------------------------------------------------------------
(* Specifications *)

Init ==
    /\ captures = <<>>
    /\ transcripts = <<>>
    /\ legacyNotes = <<>>
    /\ runs = <<>>
    /\ notes = <<>>
    /\ text_inputs = <<>>
    /\ audio_files = <<>>
    /\ audio_transcripts = <<>>
    /\ noteRuns = <<>>
    /\ patches = 0
    /\ lastWriter = <<>>
    /\ initialText = <<>>
    /\ call = NoCall
    /\ tmpFiles = {}
    /\ now = StartOfClock
    /\ redis = <<>>
    /\ requests = [s \in Slots |-> Idle]
    /\ admitted = [k \in RateKeys \X Seconds |-> [ok |-> 0, denied |-> 0]]
    /\ failedOpen = 0

NextLegacy ==
    \/ \E u \in LegacyUsers, key \in LegacyAudioKeys : CommitCapture(u, TRUE, key)
    \/ \E u \in LegacyUsers, key \in LegacyTextKeys : CommitCapture(u, FALSE, key)
    \/ \E r \in 1..Len(runs) : processCapture(r)

SpecLegacy == Init /\ [][NextLegacy]_vars

\* text contributions to notes
NextText ==
    \/ \E u \in NoteUsers, body \in CreateBodies : CreateNote(u, body)
    \/ \E u \in NoteUsers, n \in 1..Len(notes), key \in TextKeys : CommitText(u, n, key)
    \/ \E r \in 1..Len(noteRuns) : TextRun(r)

SpecText == Init /\ [][NextText]_vars

\* text and audio contributions to notes
NextContrib ==
    \/ \E u \in NoteUsers, body \in CreateBodies : CreateNote(u, body)
    \/ \E u \in NoteUsers, n \in 1..Len(notes), key \in MixedTextKeys : CommitText(u, n, key)
    \/ \E u \in NoteUsers, n \in 1..Len(notes), key \in AudioKeys : CommitAudio(u, n, key)
    \/ \E r \in 1..Len(noteRuns) : ContributionRun(r)

SpecContrib == Init /\ [][NextContrib]_vars

\* the caller has used all but one of the requests of the window on every
\* rate-limited route
InitBusy ==
    /\ captures = <<>>
    /\ transcripts = <<>>
    /\ legacyNotes = <<>>
    /\ runs = <<>>
    /\ notes = <<>>
    /\ text_inputs = <<>>
    /\ audio_files = <<>>
    /\ audio_transcripts = <<>>
    /\ noteRuns = <<>>
    /\ patches = 0
    /\ lastWriter = <<>>
    /\ initialText = <<>>
    /\ call = NoCall
    /\ tmpFiles = {}
    /\ now = StartOfClock
    /\ redis = [wk \in { WindowKey(RateKey(op, u), StartOfClock, LimitOf(op)) :
                           op \in Routes \ {"create", "patch"}, u \in NoteUsers } |->
                  [count |-> LimitOf(wk.key[1]).max - 1,
                   expireAt |-> StartOfClock + 2 * LimitOf(wk.key[1]).windowSec]]
    /\ requests = [s \in Slots |-> Idle]
    /\ admitted = [k \in RateKeys \X Seconds |-> [ok |-> 0, denied |-> 0]]
    /\ failedOpen = 0

\* requests to the routes that create a note, edit it, commit a text to it
\* and ask for an upload slot, one after the other, each up to the call of
\* its pipeline
NextChecks ==
    \E op \in {"create", "patch", "text_commit", "audio"} :
       \E in \in InputsOf(op) : Handle(1, op, in)

SpecChecks == InitBusy /\ [][NextChecks]_vars

\* audio files committed to the notes of two users and read back (the runs
\* of the pipeline are left where they start)
NextAudioFiles ==
    \/ \E u \in Users, body \in CreateBodies : CreateNote(u, body)
    \/ \E u \in Users, n \in 1..Len(notes), key \in {"a1", "a2"} : CommitAudio(u, n, key)
    \/ \E u \in Users, id \in 1..(Len(notes) + 1) : GetAudioFiles(1, u, id)

SpecAudioFiles == Init /\ [][NextAudioFiles]_vars

\* requests to three rate-limited routes (upload slot for a note, regenerate,
\* capture commit) and to the route that creates the note, one after the
\* other
NextOrder ==
    \E op \in {"create", "audio", "regenerate", "commit"} :
       \E in \in InputsOf(op) : Handle(1, op, in)

SpecOrder == InitBusy /\ [][NextOrder]_vars

\* notes are created, one audio file is committed and processed, and the
\* first note is edited, while time passes
NextPatch ==
    \/ \E u \in NoteUsers : CreateNote(u, [title |-> <<"N">>, content_text |-> <<"x">>])
    \/ \E in \in {i \in InputsOf("patch") : i.auth /\ isValidUuid(i.id)} :
          Handle(1, "patch", in)
    \/ /\ noteRuns = <<>>
       /\ \E u \in NoteUsers, n \in 1..Len(notes), key \in AudioKeys : CommitAudio(u, n, key)
    \/ \E r \in 1..Len(noteRuns) : ContributionRun(r)
    \/ Tick

SpecPatch == Init /\ [][NextPatch]_vars

\* one contribution to a note and one capture, each with its run
NextRecords ==
    \/ \E u \in NoteUsers : CreateNote(u, [title |-> <<"N">>, content_text |-> <<"x">>])
    \/ /\ noteRuns = <<>>
       /\ \E u \in NoteUsers, n \in 1..Len(notes), key \in MixedTextKeys : CommitText(u, n, key)
    \/ /\ noteRuns = <<>>
       /\ \E u \in NoteUsers, n \in 1..Len(notes), key \in AudioKeys : CommitAudio(u, n, key)
    \/ /\ runs = <<>>
       /\ \E u \in LegacyUsers, key \in LegacyAudioKeys : CommitCapture(u, TRUE, key)
    \/ /\ runs = <<>>
       /\ \E u \in LegacyUsers, key \in LegacyTextKeys : CommitCapture(u, FALSE, key)
    \/ \E r \in 1..Len(noteRuns) : ContributionRun(r)
    \/ \E r \in 1..Len(runs) : processCapture(r)

SpecRecords == Init /\ [][NextRecords]_vars

\* a capture of one user, and processCapture called on it by either user
NextForeign ==
    \/ /\ captures = <<>>
       /\ \E key \in {"a1"} : CommitCapture("u1", TRUE, key)
    \/ /\ captures = <<>>
       /\ \E key \in {"t1"} : CommitCapture("u1", FALSE, key)
    \/ \E u \in Users, c \in 1..Len(captures) : InvokeProcessCapture(u, c)
    \/ \E r \in 1..Len(runs) : processCapture(r)

SpecForeign == Init /\ [][NextForeign]_vars

\* notes with edits, text and audio contributions
NextNotes ==
    \/ \E u \in NoteUsers, body \in CreateBodies : CreateNote(u, body)
    \/ \E u \in NoteUsers, n \in 1..Len(notes), body \in PatchBodies : PatchNote(u, n, body)
    \/ \E u \in NoteUsers, n \in 1..Len(notes), key \in MixedTextKeys : CommitText(u, n, key)
    \/ \E u \in NoteUsers, n \in 1..Len(notes), key \in AudioKeys : CommitAudio(u, n, key)
    \/ \E r \in 1..Len(noteRuns) : ContributionRun(r)

SpecNotes == Init /\ [][NextNotes]_vars

\* calls of the functions of lib/openai.ts
NextOpenai ==
    \/ \E t \in TranscriptTexts, response \in StructureResponses : StructureCall(t, response)
    \/ \E outline \in Outlines :
          \E response \in RenderAnswers(outline) : RenderCall(outline, response)
    \/ \E size \in AudioSizes, mime \in AudioMimes : TranscribeStart(size, mime)
    \/ WriteTempFile
    \/ CreateTranscription
    \/ UnlinkTempFile

SpecOpenai == Init /\ [][NextOpenai]_vars

\* the note routes called by two users on each other's notes, one request
\* after the other
NextOwners ==
    \/ \E u \in Users : CreateNote(u, [title |-> <<"N">>, content_text |-> <<"x">>])
    \/ \E u \in Users, id \in 1..(Len(notes) + 1) : GetNote(1, u, id)
    \/ \E u \in Users, id \in 1..(Len(notes) + 1) :
          PatchRequest(1, u, id, [title |-> <<"M">>, tags |-> <<"work">>])
    \/ \E u \in Users, id \in 1..(Len(notes) + 1) :
          \/ CommitRequest(1, "text", u, id, "t2")
          \/ CommitRequest(1, "audio", u, id, "a1")

SpecOwners == Init /\ [][NextOwners]_vars

\* regenerate requests next to a run of processCapture on an audio capture
NextRegenerate ==
    \/ /\ Len(runs) < MaxRegenCaptures
       /\ \E u \in LegacyUsers, key \in LegacyAudioKeys : CommitCapture(u, TRUE, key)
    \/ \E r \in 1..Len(runs) :
          \/ FetchCapture(r)
          \/ DownloadAudio(r)
          \/ TranscribeAudio(r)
          \/ SaveTranscript(r)
          \/ StructureStep(r)
          \/ RenderStep(r)
          \/ InsertNote(r)
          \/ RecoverTranscript(r)
          \/ RecoverCapture(r)
          \/ RecoverInsert(r)
    \/ \E u \in Users, id \in 1..(Len(legacyNotes) + 1), check \in RegenerateChecks :
          RegenerateRead(1, u, id, check)
    \/ RegenerateRespond(1)

SpecRegenerate == Init /\ [][NextRegenerate]_vars

\* merges of two texts into a content
NextMerge ==
    \E existing \in ExistingTexts, a \in NewTexts, b \in NewTexts : MergeCalls(existing, a, b)

SpecMerge == Init /\ [][NextMerge]_vars

\* calls of the Format Resolver
NextResolver == \E buffer \in Buffers, mime \in DeclaredMimes : DetectCall(buffer, mime)

SpecResolver == Init /\ [][NextResolver]_vars

\* processCapture on audio captures, with the call of transcribeAudio taken
\* step by step
NextTranscribe ==
    \/ /\ Len(runs) < MaxTranscribeRuns
       /\ \E u \in LegacyUsers, key \in LegacyAudioKeys : CommitCapture(u, TRUE, key)
    \/ \E r \in 1..Len(runs) :
          \/ FetchCapture(r)
          \/ DownloadAudio(r)
          \/ \E size \in AudioSizes, mime \in AudioMimes : TranscribeInvoke(r, size, mime)
          \/ TranscribeResume(r)
          \/ SaveTranscript(r)
          \/ StructureStep(r)
          \/ RenderStep(r)
          \/ InsertNote(r)
          \/ RecoverTranscript(r)
          \/ RecoverCapture(r)
          \/ RecoverInsert(r)
    \/ WriteTempFile
    \/ CreateTranscription
    \/ UnlinkTempFile

SpecTranscribe == Init /\ [][NextTranscribe]_vars

\* audio commits of the legacy route with their responses
NextQueued ==
    \/ \E s \in Slots, u \in LegacyUsers, key \in LegacyAudioKeys, d \in Durations :
          LegacyCommit(s, u, key, d)
    \/ \E s \in Slots : LegacyRespond(s)
    \/ \E r \in 1..Len(runs) :
          \/ FetchCapture(r)
          \/ DownloadAudio(r)
          \/ TranscribeAudio(r)
          \/ SaveTranscript(r)
          \/ StructureStep(r)
          \/ RenderStep(r)
          \/ InsertNote(r)
          \/ RecoverTranscript(r)
          \/ RecoverCapture(r)
          \/ RecoverInsert(r)

SpecQueued == Init /\ [][NextQueued]_vars

\* calls of checkRateLimit by concurrent requests, the store failing or not
NextLimiter ==
    \/ \E s \in Slots, u \in NoteUsers : RequestArrives(s, "text_commit", u, BOOLEAN)
    \/ \E s \in Slots : StoreCall(s, StoreOutcomes)
    \/ \E s \in Slots : Admitted(s)
    \/ \E s \in Slots : Respond429(s)

SpecLimiter == Init /\ [][NextLimiter]_vars

\* calls of checkRateLimit by concurrent requests over time, the store available
NextWindows ==
    \/ \E s \in Slots, u \in NoteUsers : RequestArrives(s, "text_commit", u, {TRUE})
    \/ \E s \in Slots : StoreCall(s, StoreAvailable)
    \/ \E s \in Slots : Admitted(s)
    \/ \E s \in Slots : Respond429(s)
    \/ Tick

SpecWindows == Init /\ [][NextWindows]_vars

\* the rate-limited text commit route with its pipeline, the store available;
\* the notes are created with a text
NextGuard ==
    \/ \E u \in NoteUsers : CreateNote(u, [title |-> <<"N">>, content_text |-> <<"x">>])
    \/ \E s \in Slots, u \in NoteUsers : RequestArrives(s, "text_commit", u, {TRUE})
    \/ \E s \in Slots : StoreCall(s, StoreAvailable)
    \/ \E s \in Slots : CommitBody(s)
    \/ \E s \in Slots : Respond429(s)
    \/ \E r \in 1..Len(noteRuns) : TextRun(r)

SpecGuard == Init /\ [][NextGuard]_vars

-----------------------------------------------------------------------------
(* Properties of the legacy flow *)

Terminated(run) == run.pc \in {"done", "failed"}

\* the stages of processCapture in pipeline order; the legacy flow creates a
\* note per capture and has no merge step
LegacyStages == <<"Fetching", "Extracting", "Structuring", "Persisting">>

IsPrefix(s, t) == Len(s) <= Len(t) /\ SubSeq(t, 1, Len(s)) = s

\* the stages a run went through before it returned or threw
StagesOf(run) == SelectSeq(run.trail, LAMBDA st : st \notin {"Done", "Failed"})

\* the text the capture of a run was extracted to: its transcript, or the
\* content of its text file
RawText(c) ==
    IF c \in DOMAIN transcripts
    THEN transcripts[c]
    ELSE TextObjects[captures[c].text_path]

\* C5 as claimed: a run goes through the stages in order and the terminal
\* state Failed is entered only from Fetching or Extracting: a run that got
\* past Extracting never ends in Failed.
C5_FailedOnlyFromFetchingOrExtracting ==
    \A r \in 1..Len(runs) :
        /\ IsPrefix(StagesOf(runs[r]), LegacyStages)
        /\ runs[r].pc = "failed" => runs[r].caughtAt \in {"Fetching", "Extracting"}

\* C5 as amended: a run goes through the stages in order without going back;
\* a run that was never interrupted ends in Done after all of them; a throw
\* happens in Fetching, Extracting or Persisting only, never in Structuring,
\* so Failed is entered from Fetching, Extracting or Persisting.
C5_StageOrder ==
    \A r \in 1..Len(runs) :
        /\ IsPrefix(StagesOf(runs[r]), LegacyStages)
        /\ runs[r].caughtAt \in {"", "Fetching", "Extracting", "Persisting"}
        /\ runs[r].pc = "failed" => runs[r].caughtAt # ""
        /\ runs[r].pc = "done" /\ runs[r].caughtAt = ""
             => runs[r].trail = LegacyStages \o <<"Done">>

C5_Witness ==
    \E r \in 1..Len(runs) : runs[r].pc = "failed" /\ runs[r].caughtAt = "Persisting"

\* C6: a step of a run that has failed (control is in or enters the catch
\* block, or the run has thrown to its caller) leaves every existing note as
\* it was; the one thing it may add is a note titled 'Processing Failed'
\* whose document is that heading followed by the raw extracted text.
C6_FailedRunKeepsNotes ==
    [][\A r \in 1..Len(runs) :
          (runs'[r] # runs[r] /\ runs'[r].caughtAt # "") =>
             /\ IsPrefix(legacyNotes, legacyNotes')
             /\ Len(legacyNotes') <= Len(legacyNotes) + 1
             /\ Len(legacyNotes') = Len(legacyNotes) + 1 =>
                  LET new == legacyNotes'[Len(legacyNotes')]
                  IN  /\ new.title = <<"Processing Failed">>
                      /\ new.editor_json =
                           Doc(<<Heading(1, <<"Processing Failed">>),
                                 Paragraph(RawText(runs[r].captureId))>>)
                      /\ new.capture_id = runs[r].captureId]_vars

\* a run has failed and was recovered while a note of another run exists
C6_Witness ==
    \E r \in 1..Len(runs) :
        /\ runs[r].caughtAt # ""
        /\ runs[r].pc = "done"
        /\ \E n \in 1..Len(legacyNotes) :
              n \notin runs[r].inserted /\ n < runs[r].noteId

\* C7 as claimed: a run whose metadata read in Fetching failed ends in Failed
\* and has written nothing: no transcript and no note.
C7_FetchFailureWritesNothing ==
    \A r \in 1..Len(runs) :
        runs[r].caughtAt = "Fetching" =>
            /\ runs[r].pc # "done"
            /\ runs[r].inserted = {}
            /\ ~runs[r].savedTranscript

\* C8 as claimed: a run whose download or transcription in Extracting failed
\* ends in Failed and has created or modified no note.
C8_ExtractionFailureWritesNoNote ==
    \A r \in 1..Len(runs) :
        runs[r].caughtAt = "Extracting" =>
            /\ runs[r].pc # "done"
            /\ runs[r].inserted = {}

\* C9: the transcript of an audio capture is in the table before structuring
\* starts and stays there unchanged: no step deletes or rewrites a
\* transcript, whatever fails later in the run.
C9_TranscriptBeforeStructuringAndKept ==
    /\ [](\A r \in 1..Len(runs) :
            /\ (runs[r].pc \in {"structure", "render", "insertNote"}
                 /\ runs[r].capture.audio_path # "")
                   => runs[r].captureId \in DOMAIN transcripts
            /\ runs[r].savedTranscript
                   => /\ runs[r].captureId \in DOMAIN transcripts
                      /\ transcripts[runs[r].captureId]
                           = AudioObjects[captures[runs[r].captureId].audio_path])
    /\ [][\A c \in DOMAIN transcripts :
             c \in DOMAIN transcripts' /\ transcripts'[c] = transcripts[c]]_vars

\* a later step of the run failed and its transcript is still there
C9_Witness ==
    \E r \in 1..Len(runs) :
        /\ runs[r].savedTranscript
        /\ runs[r].pc = "failed"
        /\ runs[r].captureId \in DOMAIN transcripts

\* C10: a run that fails after its transcript was saved makes one recovery
\* attempt; when the run then returns, the id it returns is that of a note
\* whose document is the heading 'Processing Failed' followed by the raw
\* transcript text; an error reaches the caller only when the attempt has
\* persisted no note.
C10_OneRecoveryAttempt ==
    \A r \in 1..Len(runs) :
        (runs[r].savedTranscript /\ runs[r].caughtAt # "") =>
            /\ runs[r].recoveries = 1
            /\ runs[r].pc = "done" =>
                 /\ runs[r].noteId \in 1..Len(legacyNotes)
                 /\ runs[r].inserted = {runs[r].noteId}
                 /\ legacyNotes[runs[r].noteId].editor_json =
                      Doc(<<Heading(1, <<"Processing Failed">>),
                            Paragraph(transcripts[runs[r].captureId])>>)
                 /\ legacyNotes[runs[r].noteId].capture_id = runs[r].captureId
            /\ runs[r].pc = "failed" => runs[r].inserted = {}

\* the note write failed after the transcript was saved and the recovery
\* attempt persisted the degraded note
C10_Witness ==
    \E r \in 1..Len(runs) :
        /\ runs[r].savedTranscript
        /\ runs[r].caughtAt = "Persisting"
        /\ runs[r].pc = "done"

\* C11: whatever the structuring and the rendering call answer (upstream
\* error, empty response, invalid JSON, schema-invalid JSON), the run goes on
\* from Structuring to Persisting: the structuring step leaves the validated
\* outline or the fallback outline, the rendering step leaves the answered
\* document or the local fallback document, and a note write that succeeds
\* stores exactly these and returns the note id to the caller.
C11_StructuringNeverAborts ==
    [][\A r \in 1..Len(runs) :
          /\ (runs[r].pc = "structure" /\ runs'[r] # runs[r]) =>
                /\ runs'[r].pc = "render"
                /\ runs'[r].caughtAt = ""
                /\ IsOutlineJson(runs'[r].outline)
          /\ (runs[r].pc = "render" /\ runs'[r] # runs[r]) =>
                /\ runs'[r].pc = "insertNote"
                /\ runs'[r].caughtAt = ""
                /\ "type" \in DOMAIN runs'[r].editorJson
                /\ runs[r].outline = FallbackOutline =>
                      runs'[r].editorJson \in
                         { createFallbackEditorJson(FallbackOutline),
                           Paragraph(FallbackOutline.title) }
          /\ (runs[r].pc = "insertNote" /\ runs'[r].pc = "done") =>
                /\ runs'[r].noteId = Len(legacyNotes')
                /\ legacyNotes'[runs'[r].noteId].outline_json = runs[r].outline
                /\ legacyNotes'[runs'[r].noteId].editor_json = runs[r].editorJson]_vars

\* a run that was never interrupted has returned a note holding the fallback
\* outline and the fallback document made of it
C11_Witness ==
    \E r \in 1..Len(runs) :
        /\ runs[r].pc = "done"
        /\ runs[r].caughtAt = ""
        /\ runs[r].noteId \in 1..Len(legacyNotes)
        /\ legacyNotes[runs[r].noteId].outline_json = FallbackOutline
        /\ legacyNotes[runs[r].noteId].editor_json = createFallbackEditorJson(FallbackOutline)

-----------------------------------------------------------------------------
(* Properties of the note-centric flow *)

\* the text of the file a text run was committed with
TextOf(r) == TextObjects[text_inputs[noteRuns[r].inputId].storage_path]

\* the runs on note n, in commit order
RunsOn(n) == SelectSeq([r \in 1..Len(noteRuns) |-> r], LAMBDA r : noteRuns[r].noteId = n)

\* texts joined by blank lines
RECURSIVE JoinTexts(_)
JoinTexts(ts) ==
    IF Len(ts) = 0 THEN <<>>
    ELSE IF Len(ts) = 1 THEN ts[1]
    ELSE JoinTexts(SubSeq(ts, 1, Len(ts) - 1)) \o BlankLine \o ts[Len(ts)]

\* C1: two text runs on the same note that both read content_text = null at
\* Merging and both wrote the note back leave the text of the later writer
\* alone in content_text, not the two texts joined.
C1_LostUpdate ==
    \A r1, r2 \in 1..Len(noteRuns) :
        (/\ r1 # r2
         /\ noteRuns[r1].noteId = noteRuns[r2].noteId
         /\ noteRuns[r1].pc = "done" /\ noteRuns[r2].pc = "done"
         /\ noteRuns[r1].existing = NULL /\ noteRuns[r2].existing = NULL
         /\ lastWriter[noteRuns[r2].noteId] = r2)
        => LET final == notes[noteRuns[r2].noteId].content_text
           IN  /\ final = TextOf(r2)
               /\ final # TextOf(r1) \o BlankLine \o TextOf(r2)
               /\ final # TextOf(r2) \o BlankLine \o TextOf(r1)

\* both runs read null, both wrote, and the first writer's text is lost
C1_Witness ==
    \E r1, r2 \in 1..Len(noteRuns) :
        /\ r1 # r2
        /\ noteRuns[r1].noteId = noteRuns[r2].noteId
        /\ noteRuns[r1].pc = "done" /\ noteRuns[r2].pc = "done"
        /\ noteRuns[r1].existing = NULL /\ noteRuns[r2].existing = NULL
        /\ lastWriter[noteRuns[r2].noteId] = r2
        /\ TextOf(r1) = <<"a">> /\ TextOf(r2) = <<"b">>
        /\ notes[noteRuns[r2].noteId].content_text = <<"b">>

\* C2: the content_text a run writes at Persisting begins with the
\* content_text it read at Merging and ends with the run's own text, whether
\* the outline came from the structuring call or is the fallback outline.
C2_MergedTextKeepsWhatWasRead ==
    [][\A r \in 1..Len(noteRuns) :
          (noteRuns[r].pc = "persist" /\ noteRuns'[r].pc = "done") =>
             LET written == notes'[noteRuns[r].noteId].content_text
                 read == noteRuns[r].existing
             IN  /\ written # NULL
                 /\ read # NULL => StartsWith(written, read)
                 /\ EndsWith(written, noteRuns[r].text)
                 /\ Len(written) <= Len(read) + Len(BlankLine) + Len(noteRuns[r].text)]_vars

\* an audio run whose structuring fell back has written its transcript
\* behind the text the note had before
C2_Witness ==
    \E n \in 1..Len(notes) :
        /\ notes[n].outline_json = FallbackOutline
        /\ notes[n].content_text = <<"x">> \o BlankLine \o <<"a">>

\* run r on note n finished without failing and overlapped no other run
Sequential(n) ==
    \A i \in 1..Len(RunsOn(n)) :
        LET run == noteRuns[RunsOn(n)[i]]
        IN  run.kind = "text" /\ run.pc = "done" /\ ~run.overlapped

ContributedTexts(n) == [i \in 1..Len(RunsOn(n)) |-> TextOf(RunsOn(n)[i])]

C4_EditorDocAlwaysValid ==
    \A n \in 1..Len(notes) :
        /\ notes[n].editor_json # JsonNull
        /\ IsDoc(notes[n].editor_json)

-----------------------------------------------------------------------------
(* Properties of lib/openai.ts *)

\* the answer of the model is no outline: no answer, no JSON, or JSON that
\* fails the Outline schema
Malformed(response) == ~(response.kind = "json" /\ IsOutlineJson(response.value))

\* C12 as claimed: a call of structureOutline returns, and for a malformed
\* answer it returns a minimal outline with a placeholder title and empty
\* highlights, insights, open questions, next steps and tags.
C12_FallbackOutlineIsEmpty ==
    (call.fn = "structureOutline" /\ Malformed(call.response)) =>
        /\ call.pc = "returned"
        /\ call.result.title # <<>>
        /\ call.result.highlights = <<>>
        /\ call.result.insights = <<>>
        /\ call.result.open_questions = <<>>
        /\ call.result.next_steps = <<>>
        /\ call.result.tags = <<>>

\* C12 as amended: a call of structureOutline returns a value of the Outline
\* schema, and for a malformed answer it returns the same outline every time:
\* the title 'Untitled Note', the one highlight 'Transcript processing
\* failed', no insights, open questions or next steps, no tags.
C12_FallbackOutlineIsFixed ==
    call.fn = "structureOutline" =>
        /\ call.pc = "returned"
        /\ IsOutlineJson(call.result)
        /\ Malformed(call.response) =>
              /\ call.result.title = <<"Untitled Note">>
              /\ call.result.highlights = << <<"Transcript processing failed">> >>
              /\ call.result.insights = <<>>
              /\ call.result.open_questions = <<>>
              /\ call.result.next_steps = <<>>
              /\ call.result.tags = <<>>
              /\ call.result.lang = "en"

\* the model answered JSON that fails the schema and the fallback came back
C12_Witness ==
    /\ call.fn = "structureOutline"
    /\ call.response = [kind |-> "json", value |-> GptBadOutline]
    /\ call.result = FallbackOutline

\* the texts of the top-level headings of a document, in document order
TopHeadings(doc) ==
    LET hs == SelectSeq(doc.content, LAMBDA node : node.type = "heading")
    IN  [i \in 1..Len(hs) |-> hs[i].content[1].text]

\* the sections an outline has: its title, then one per non-empty list
ExpectedSections(outline) ==
    <<outline.title>>
    \o (IF outline.highlights # <<>> THEN <<Label("Highlights")>> ELSE <<>>)
    \o (IF outline.insights # <<>> THEN <<Label("Insights")>> ELSE <<>>)
    \o (IF outline.open_questions # <<>> THEN <<Label("Open Questions")>> ELSE <<>>)
    \o (IF outline.next_steps # <<>> THEN <<Label("Next Steps")>> ELSE <<>>)

\* C13 as claimed: the document returned by outlineToEditorJson, from the
\* model or from the local fallback, is a 'doc' whose top-level headings are
\* the title, Highlights, Insights, Open Questions, Next Steps in this order,
\* each present exactly when its list is non-empty.
C13_SectionsInFixedOrder ==
    call.fn = "outlineToEditorJson" =>
        /\ call.result.type = "doc"
        /\ TopHeadings(call.result) = ExpectedSections(call.input)

\* the texts of the items of the list under the heading 'Open Questions'
QuestionTexts(doc) ==
    LET at == { i \in 1..(Len(doc.content) - 1) :
                  /\ doc.content[i].type = "heading"
                  /\ doc.content[i].content[1].text = Label("Open Questions") }
    IN  IF at = {} THEN <<>>
        ELSE LET items == doc.content[(CHOOSE i \in at : TRUE) + 1].content
             IN  [k \in 1..Len(items) |-> items[k].content[1].content[1].text]

\* C14 as claimed: in the document returned by outlineToEditorJson, from the
\* model or from the local fallback, the items of the Open Questions list are
\* the questions of the outline, each ending with '?': as it is when it ends
\* with '?', with one '?' appended otherwise.
C14_QuestionsEndWithMark ==
    call.fn = "outlineToEditorJson" =>
        /\ call.result.type = "doc"
        /\ QuestionTexts(call.result) =
             [k \in 1..Len(call.input.open_questions) |->
                 IF EndsWith(call.input.open_questions[k], <<"?">>)
                 THEN call.input.open_questions[k]
                 ELSE call.input.open_questions[k] \o <<"?">>]

\* C19: a call of transcribeAudio with a buffer of more than 25 MiB has
\* raised the transcription error without staging a file and without calling
\* the transcription capability; a buffer of exactly 25 MiB or less is never
\* rejected for its size.
C19_OversizedRejectedBeforeCall ==
    call.fn = "transcribeAudio" =>
        /\ call.size > maxSize =>
              /\ call.pc = "raised"
              /\ call.error = "Failed to transcribe audio"
              /\ call.apiCalls = 0
              /\ ~call.staged
              /\ call.file \notin tmpFiles
        /\ call.size <= maxSize => call.cause # "too_large"

\* a buffer one byte over the ceiling was handed in and the call has raised
C19_Witness ==
    /\ call.fn = "transcribeAudio"
    /\ call.size = maxSize + 1
    /\ call.pc = "raised"

\* C20 as claimed: when a call of transcribeAudio has returned or raised, no
\* temporary file it staged is left.
C20_NoTempFileOutlivesCall ==
    (call.fn = "transcribeAudio" /\ Settled) => tmpFiles = {}

\* C20 as amended: when a call of transcribeAudio has returned or raised
\* after staging began, it has made exactly one attempt to remove its
\* temporary file, on the success path and on every error path; the file is
\* gone when that attempt succeeded, and the attempt changes nothing in what
\* the call returns or raises.
C20_CleanupAttemptedOnEveryExit ==
    (call.fn = "transcribeAudio" /\ Settled) =>
        /\ call.staged =>
              /\ call.unlinks = 1
              /\ (call.unlinkOk => call.file \notin tmpFiles)
              /\ (call.pc = "returned" <=> call.cause = "ok")
        /\ ~call.staged => (call.unlinks = 0 /\ call.file \notin tmpFiles)

\* the transcription call failed and the staged file was removed on the way out
C20_Witness ==
    /\ call.fn = "transcribeAudio"
    /\ call.pc = "raised"
    /\ call.cause = "connection"
    /\ call.unlinkOk
    /\ call.file \notin tmpFiles

-----------------------------------------------------------------------------
(* Properties of the Throughput Guard *)

Windows == { t \div rateLimits.commit.windowSec : t \in Seconds }

\* C16: a request whose call to the store was skipped (store not configured),
\* answered non-OK, answered without a number or threw is let through, and a
\* request the store counted above the ceiling is rejected: the fail-open
\* path never swallows the rate-limit error, and nothing else is rejected.
C16_FailsOpen ==
    \A s \in Slots :
        requests[s].pc \in {"admitted", "rejected"} =>
            /\ requests[s].outcome # "ok" => requests[s].pc = "admitted"
            /\ (requests[s].outcome = "ok" /\ requests[s].count > rateLimits.commit.max)
                  => requests[s].pc = "rejected"
            /\ requests[s].pc = "rejected" =>
                  /\ requests[s].outcome = "ok"
                  /\ requests[s].count > rateLimits.commit.max

\* one request was let through after the call to the store threw while
\* another one is rejected for being over the limit
C16_Witness ==
    \E s1, s2 \in Slots :
        /\ requests[s1].pc = "admitted" /\ requests[s1].outcome = "throws"
        /\ requests[s2].pc = "rejected"

\* C17: as long as every call to the store was answered with its count, at
\* most max requests of a key are let through per window, however the
\* requests interleave.
C17_AtMostMaxPerWindow ==
    failedOpen = 0 =>
        \A key \in RateKeys, w \in Windows :
            AdmittedIn(key, w, rateLimits.commit) <= rateLimits.commit.max

\* two requests in progress at the same time: one got the last free count of
\* the window, the other one is rejected
C17_Witness ==
    /\ failedOpen = 0
    /\ \E s1, s2 \in Slots :
          /\ requests[s1].pc = "admitted"
          /\ requests[s1].count = rateLimits.commit.max
          /\ requests[s2].pc = "rejected"
          /\ requests[s2].key = requests[s1].key
          /\ requests[s2].at \div rateLimits.commit.windowSec
               = requests[s1].at \div rateLimits.commit.windowSec

\* requests of a key let through with a clock read in [t, t + windowSec)
AdmittedFrom(key, t) ==
    Count(key, { t2 \in Seconds : t <= t2 /\ t2 < t + rateLimits.commit.windowSec }, "ok")

C15_RejectedBeforeAnyStage ==
    /\ [][\A s \in Slots :
            /\ (requests[s].pc = "fetch" /\ requests'[s].pc # "fetch"
                 /\ requests'[s].count > rateLimits.commit.max)
                  => requests'[s].pc = "rejected"
            /\ (requests'[s].pc = "rejected" /\ requests[s].pc # "rejected")
                  => UNCHANGED noteVars
            /\ (requests[s].pc = "rejected" /\ requests'[s] # requests[s])
                  => (requests'[s] = Idle /\ UNCHANGED noteVars)]_vars
    /\ [](Len(text_inputs) + Len(audio_files) = Len(noteRuns)
           /\ \A key \in RateKeys :
                Cardinality({ r \in 1..Len(noteRuns) :
                                noteRuns[r].userId = key[2]
                                /\ key[1] = noteRuns[r].kind \o "_commit" })
                  <= Count(key, Seconds, "ok"))

\* a request over the limit has been answered 429 after the contribution of
\* an earlier request was committed
C15_Witness ==
    /\ \A s \in Slots : requests[s].pc = "idle"
    /\ Count(RateKey("text_commit", "u1"), Seconds, "denied") >= 1
    /\ Len(text_inputs) = 1
    /\ Len(noteRuns) = 1

-----------------------------------------------------------------------------
(* Properties of the transcription step *)

\* the messages of the InternalServerError thrown by transcribeAudio
TranscriptionErrors ==
    { TranscriptionError(cause) : cause \in TranscriptionOutcomes \cup {"too_large", "write"} }

\* C21: a call of transcribeAudio calls the transcription capability at most
\* once and a run of processCapture calls transcribeAudio at most once; after
\* a failed call of the capability the call only cleans up and raises, and
\* what it raises is an InternalServerError whatever the cause; the run that
\* caught it goes to its end without a transcript and without a note and
\* ends in Failed.
C21_TranscribedAtMostOnce ==
    /\ [](call.fn = "transcribeAudio" =>
            /\ call.apiCalls <= 1
            /\ (call.pc = "raised" <=> (Settled /\ call.cause # "ok"))
            /\ (call.pc = "raised" => call.error \in TranscriptionErrors))
    /\ [][(call.fn = "transcribeAudio" /\ call.pc = "unlink" /\ call' # call)
             => (call'.pc \in {"returned", "raised"} /\ call'.apiCalls = call.apiCalls)]_vars
    /\ [](\A r \in 1..Len(runs) :
            /\ runs[r].transcribeCalls <= 1
            /\ runs[r].transcribeError # "" =>
                  /\ runs[r].transcribeError \in TranscriptionErrors
                  /\ runs[r].caughtAt = "Extracting"
                  /\ runs[r].pc \in {"recTranscript", "recCapture", "failed"}
                  /\ ~runs[r].savedTranscript
                  /\ runs[r].captureId \notin DOMAIN transcripts
                  /\ runs[r].inserted = {}
                  /\ \A n \in 1..Len(legacyNotes) :
                        legacyNotes[n].capture_id # runs[r].captureId)

\* the capability answered 429 once and the run has ended in Failed
C21_Witness ==
    \E r \in 1..Len(runs) :
        /\ runs[r].pc = "failed"
        /\ runs[r].transcribeError = "OpenAI API rate limit exceeded"
        /\ runs[r].transcribeCalls = 1

-----------------------------------------------------------------------------
(* Properties of the Format Resolver *)

\* one of the five signatures is found in the first bytes of the buffer
\* (at most twelve of them)
HasSignature(buffer) ==
    LET hex == ToHex(Slice(buffer, 0, 12))
    IN  \/ StartsWith(hex, Hex000000) /\ Includes(hex, HexFtyp)
        \/ StartsWith(hex, HexEbml)
        \/ StartsWith(hex, HexRiff)
        \/ StartsWith(hex, HexFffb)
        \/ StartsWith(hex, HexId3)

ResolvedTypes ==
    { Mime("audio", "m4a"), Mime("audio", "mp4"), Mime("audio", "webm"),
      Mime("audio", "wav"), Mime("audio", "mpeg") }

\* C22: every call of the resolver returns a type and an extension; two
\* calls with the same first twelve bytes and the same declared type return
\* the same; when a signature is found in a buffer of twelve bytes or more
\* the result is one of the five known types whatever was declared, so two
\* calls with the same bytes return the same; ISO-media bytes resolve to
\* audio/mp4 also when audio/webm was declared.
C22_ResolverTotalAndDeterministic ==
    call.fn = "detectFormatFromMagicBytes" =>
        /\ call.detected.mime \in ResolvedTypes \cup {call.mime}
        /\ call.detected.extension # ""
        /\ (Len(call.buffer) >= 12 /\ HasSignature(call.buffer))
              => call.detected.mime \in ResolvedTypes
        /\ call.buffer = <<0, 0, 0, 32>> \o FtypIsom
              => call.detected = [mime |-> Mime("audio", "mp4"), extension |-> "mp4"]
        /\ \A i \in 1..Len(call.prev) :
              /\ (Slice(call.prev[i].buffer, 0, 12) = Slice(call.buffer, 0, 12)
                    /\ call.prev[i].mime = call.mime)
                    => call.prev[i].detected = call.detected
              /\ (call.prev[i].buffer = call.buffer
                    /\ Len(call.buffer) >= 12 /\ HasSignature(call.buffer))
                    => call.prev[i].detected = call.detected

\* the same ISO-media bytes were resolved twice, declared as audio/mpeg and
\* then as audio/webm
C22_Witness ==
    /\ call.fn = "detectFormatFromMagicBytes"
    /\ call.buffer = <<0, 0, 0, 32>> \o FtypIsom
    /\ call.mime = Mime("audio", "webm")
    /\ call.prev # <<>>
    /\ call.prev[1].buffer = call.buffer
    /\ call.prev[1].mime = Mime("audio", "mpeg")

\* C23 as claimed: for a buffer of any length in whose first bytes no
\* signature is found, the resolver returns the declared type.
C23_UnmatchedGivesDeclared ==
    (call.fn = "detectFormatFromMagicBytes" /\ ~HasSignature(call.buffer))
        => call.detected.mime = call.mime

\* C23 as amended: for a buffer of twelve bytes or more in whose first twelve
\* bytes no signature is found, the resolver returns the declared type
\* unchanged; for a buffer of fewer than twelve bytes it returns audio/webm
\* whatever the bytes and the declared type are.
C23_UnmatchedOfTwelveGivesDeclared ==
    call.fn = "detectFormatFromMagicBytes" =>
        /\ (Len(call.buffer) >= 12 /\ ~HasSignature(call.buffer))
              => /\ call.detected.mime = call.mime
                 /\ call.detected.extension = DefaultExtension(call.mime)
        /\ Len(call.buffer) < 12
              => call.detected = [mime |-> Mime("audio", "webm"), extension |-> "webm"]

\* an Ogg buffer declared as audio/ogg was resolved to audio/ogg
C23_Witness ==
    /\ call.fn = "detectFormatFromMagicBytes"
    /\ call.buffer = <<79, 103, 103, 83>> \o ZeroTail
    /\ call.mime = Mime("audio", "ogg")
    /\ call.detected.mime = Mime("audio", "ogg")

-----------------------------------------------------------------------------
(* Properties of the responses of the commit routes *)

\* C24: every audio commit starts one run; the response is 202 with
\* processing 'queued' exactly when the declared duration is above 120
\* seconds and 200 otherwise, and in both cases the run has been carried out
\* when the response is given, so that nothing but the status differs.
C24_QueuedIsCosmetic ==
    /\ Len(runs) = Len(captures)
    /\ \A s \in Slots :
          requests[s].pc = "responded" =>
             /\ requests[s].status = 202 <=> DurationOf(requests[s].duration) > 120
             /\ requests[s].status = 200 <=> DurationOf(requests[s].duration) <= 120
             /\ requests[s].processing = "queued" <=> requests[s].status = 202
             /\ requests[s].runAtResponse \in {"done", "failed"}

-----------------------------------------------------------------------------
(* Properties of what a contribution's run writes to the note *)

\* C25: no step of a run changes the title of a note that has one, so a
\* title is written by a run only to a note without title.
C25_TitleNeverOverwritten ==
    [][\A n \in 1..Len(notes) :
          notes'[n].title # notes[n].title => notes[n].title \in {NULL, <<>>}]_vars

\* an audio run has written its outline, whose title is another one, to a
\* note that kept its title
C25_Witness ==
    \E n \in 1..Len(notes) :
        /\ lastWriter[n] # 0
        /\ noteRuns[lastWriter[n]].kind = "audio"
        /\ notes[n].title = <<"N">>
        /\ notes[n].outline_json.title # notes[n].title

-----------------------------------------------------------------------------
(* Properties of merge *)

-----------------------------------------------------------------------------
(* Properties of the transcripts *)

\* C28: a transcript belongs to an audio capture, the capture being its
\* key; no capture has its transcript saved by more than one run; and no
\* step changes or removes a transcript that exists.
C28_OneTranscriptNeverUpdated ==
    /\ [](\A c \in DOMAIN transcripts :
            /\ c \in 1..Len(captures)
            /\ captures[c].audio_path # ""
            /\ Cardinality({ r \in 1..Len(runs) :
                               runs[r].captureId = c /\ runs[r].savedTranscript }) = 1)
    /\ [][\A c \in DOMAIN transcripts :
            c \in DOMAIN transcripts' /\ transcripts'[c] = transcripts[c]]_vars

\* two audio captures have their transcripts and the run of the first one
\* has gone to its end
C28_Witness ==
    /\ Cardinality(DOMAIN transcripts) = 2
    /\ \E r \in 1..Len(runs) :
          /\ runs[r].pc = "done"
          /\ runs[r].captureId \in DOMAIN transcripts
          /\ transcripts[runs[r].captureId] = <<"a">>

-----------------------------------------------------------------------------
(* Properties of ownership *)

NoteTables == <<notes, text_inputs, audio_files, audio_transcripts, noteRuns>>

\* C29: a request of a user for a note of another user is answered Not Found
\* by GET and by the commit routes and returns nothing of the note; the step
\* of such a request, PATCH included, leaves the notes, the contribution
\* records and the runs as they are; every contribution record and run
\* belongs to a note of the user who committed it.
C29_NoAccessToNotesOfOthers ==
    /\ [](\A s \in Slots :
            requests[s].pc = "responded" =>
               /\ requests[s].status = 200 /\ requests[s].op = "GET"
                     => requests[s].returned.user_id = requests[s].user
               /\ (requests[s].note \in 1..Len(notes)
                    /\ notes[requests[s].note].user_id # requests[s].user)
                     => /\ requests[s].returned = JsonNull
                        /\ requests[s].op # "PATCH" => requests[s].status = 404)
    /\ [](\A r \in 1..Len(noteRuns) :
            notes[noteRuns[r].noteId].user_id = noteRuns[r].userId)
    /\ [][\A s \in Slots :
            (requests'[s] # requests[s]
              /\ ~VisibleNote(requests'[s].user, requests'[s].note))
               => UNCHANGED NoteTables]_vars

\* user u2 has sent a PATCH for the note of u1, which was answered
C29_Witness ==
    \E s \in Slots :
        /\ requests[s].pc = "responded"
        /\ requests[s].op = "PATCH"
        /\ requests[s].user = "u2"
        /\ requests[s].note \in 1..Len(notes)
        /\ notes[requests[s].note].user_id = "u1"
        /\ requests[s].status = 200

-----------------------------------------------------------------------------
(* Properties of POST /api/note/:id/regenerate *)

\* C30: no step of a regenerate request changes a note, a capture, a
\* transcript or a run, whatever the request is answered; an answer with
\* suggestions gives the title, outline and document the note has, and next
\* to them the new outline and its title.
C30_RegenerateWritesNothing ==
    /\ [][\A s \in Slots :
            requests'[s] # requests[s]
               => UNCHANGED <<captures, transcripts, legacyNotes, runs, noteVars>>]_vars
    /\ [](\A s \in Slots :
            (requests[s].pc = "responded" /\ requests[s].status = 200) =>
               LET note == legacyNotes[requests[s].note]
                   ret == requests[s].returned
               IN  /\ note.user_id = requests[s].user
                   /\ ret.current = [title |-> note.title,
                                     outline_json |-> note.outline_json,
                                     editor_json |-> note.editor_json]
                   /\ IsOutlineJson(ret.suggestions.outline_json)
                   /\ ret.suggestions.title = ret.suggestions.outline_json.title)

\* a request was answered with a suggested outline that is not the outline
\* of the note, and the note has the outline it had
C30_Witness ==
    \E s \in Slots :
        /\ requests[s].pc = "responded"
        /\ requests[s].status = 200
        /\ requests[s].returned.suggestions.outline_json
             # requests[s].returned.current.outline_json
        /\ legacyNotes[requests[s].note].outline_json
             = requests[s].returned.current.outline_json

-----------------------------------------------------------------------------
(* Properties of the checks of the routes *)

\* the request fails the validation of its route: a note id that is no UUID,
\* a body the schema rejects, or a PATCH body without an updatable field
FailsValidation(op, in) ==
    \/ "id" \in Range(RouteSteps[op]) /\ ~isValidUuid(in.id)
    \/ "body" \in Range(RouteSteps[op]) /\ ~parseBody(op, in.body)
    \/ op = "patch" /\ DOMAIN in.body \cap PatchFields = {}

Tables == <<captures, transcripts, legacyNotes, notes, text_inputs, audio_files,
            audio_transcripts>>

\* the request answered last fails validation
InvalidAnswered ==
    /\ requests[1].pc = "responded"
    /\ FailsValidation(requests[1].op, requests[1].returned.in)

\* the rate-limit check of the request answered last found the counter
\* above the ceiling
OverTheLimit ==
    /\ "ratelimit" \in Range(requests[1].returned.steps)
    /\ OverLimit(CountOf(redis, requests[1].op, requests[1].user), LimitOf(requests[1].op))

-----------------------------------------------------------------------------
(* Properties of the audio files of a note *)

\* the audio files of note n committed before row i
EarlierFiles(n, i) == {j \in 1..(i - 1) : audio_files[j].note_id = n}

\* C32 as stated: the k-th audio file committed to a note has order_index
\* k-1, and GET returns the audio files of a note in the order of their
\* commits.
C32_OrderIndexIsPosition ==
    /\ \A i \in 1..Len(audio_files) :
          audio_files[i].order_index
             = Cardinality(EarlierFiles(audio_files[i].note_id, i))
    /\ (requests[1].pc = "responded" /\ requests[1].op = "GET" /\ requests[1].status = 200)
          => \A i, j \in DOMAIN requests[1].returned :
                i < j => requests[1].returned[i] < requests[1].returned[j]

-----------------------------------------------------------------------------
(* Properties of the order of the checks *)

ValidationSteps == {"id", "body", "fields"}

\* steps that read or write the database, sign an upload or call a model
BusinessSteps == {"note", "transcript", "insert", "update", "sign", "structure", "pipeline"}

\* C33 as stated: on a rate-limited route an unauthenticated request is
\* answered 401 at the first step, and it increments no counter and writes
\* no row; the rate-limit check is the second step of every request that is
\* authenticated; and no step of the business logic is taken before every
\* validation of the route has passed.
C33_DocumentedOrder ==
    /\ [](requests[1].pc = "responded" /\ "ratelimit" \in Range(RouteSteps[requests[1].op])
            => LET steps == requests[1].returned.steps
               IN  /\ ~requests[1].returned.in.auth
                        => requests[1].status = 401 /\ steps = <<"auth">>
                   /\ Len(steps) >= 2 => steps[2] = "ratelimit"
                   /\ Range(steps) \cap BusinessSteps # {}
                        => Range(RouteSteps[requests[1].op]) \cap ValidationSteps
                              \subseteq Range(steps))
    /\ [][(requests'[1].pc = "responded" /\ ~requests'[1].returned.in.auth)
             => UNCHANGED <<redis, Tables, runs, noteRuns, patches>>]_vars

-----------------------------------------------------------------------------
(* Properties of PATCH /api/notes/:id *)

\* the step is a PATCH that reached its update
Patched == patches' = patches + 1

\* the fields a PATCH of the body leaves or sets to the value supplied, on
\* the note the request names when the caller sees it
PatchedFieldsAre(fields) ==
    LET req == requests'[1]
        id == req.note
        body == req.returned.in.body
    IN  VisibleNote(req.user, id) =>
           \A f \in fields :
              notes'[id][f] = IF f \in DOMAIN body THEN body[f] ELSE notes[id][f]

\* C34 as stated: a successful PATCH of a note sets the fields supplied to
\* the values supplied and leaves every other field of the note unchanged.
C34_PatchChangesOnlySupplied ==
    [][Patched /\ requests'[1].status = 200
          => PatchedFieldsAre({"user_id", "title", "content_text", "editor_json",
                               "outline_json", "tags", "updated_at"})]_vars

\* C34: a successful PATCH of a note sets the fields supplied to the values
\* supplied, sets the update timestamp to the time of the update, and
\* leaves every other field of the note, every other note and every
\* contribution unchanged.
C34_PatchChangesSuppliedAndTimestamp ==
    [][Patched /\ requests'[1].status = 200
          => /\ PatchedFieldsAre({"user_id", "title", "content_text", "editor_json",
                                  "outline_json", "tags"})
             /\ VisibleNote(requests'[1].user, requests'[1].note)
                   => notes'[requests'[1].note].updated_at = now
             /\ \A n \in 1..Len(notes) : n # requests'[1].note => notes'[n] = notes[n]
             /\ Len(notes') = Len(notes)
             /\ UNCHANGED <<text_inputs, audio_files, audio_transcripts, noteRuns>>]_vars

\* a PATCH of content_text alone, after an audio run has written the note:
\* the note has the text supplied, and the outline and the document of the
\* run
C34_Witness ==
    /\ requests[1].pc = "responded"
    /\ requests[1].op = "patch"
    /\ requests[1].status = 200
    /\ requests[1].returned.in.body = [content_text |-> <<"e">>]
    /\ VisibleNote(requests[1].user, requests[1].note)
    /\ LET note == notes[requests[1].note]
       IN  /\ note.content_text = <<"e">>
           /\ note.outline_json # JsonNull
           /\ note.editor_json # Doc(<<Paragraph(<<"e">>)>>)

-----------------------------------------------------------------------------
(* Properties of an edit made while a run is between its read and its write *)

\* C35: the write of a run sets content_text to what the run read at Merging
\* merged with the text of its contribution, whatever content_text holds at
\* the time of the write; an edit of content_text made after the read is
\* not part of what is written.
C35_EditAfterReadIsOverwritten ==
    [][\A r \in 1..Len(noteRuns) :
          (noteRuns[r].pc = "persist" /\ noteRuns'[r].pc = "done")
             => LET run == noteRuns[r]
                    final == notes'[run.noteId].content_text
                IN  /\ final = Merge(run.existing, run.text)
                    /\ (/\ notes[run.noteId].content_text = <<"e">>
                        /\ "e" \notin Range(run.existing))
                          => "e" \notin Range(final)]_vars

\* the PATCH answered last set content_text to "e"; the run read the note
\* before it (what it read holds no "e") and wrote the note after it (the
\* note holds what the run merged, without the "e")
C35_Witness ==
    /\ requests[1].pc = "responded"
    /\ requests[1].op = "patch"
    /\ requests[1].status = 200
    /\ requests[1].returned.in.body = [content_text |-> <<"e">>]
    /\ \E r \in 1..Len(noteRuns) :
          /\ noteRuns[r].pc = "done"
          /\ noteRuns[r].noteId = requests[1].note
          /\ lastWriter[noteRuns[r].noteId] = r
          /\ "e" \notin Range(noteRuns[r].existing)
          /\ noteRuns[r].inputId \in DOMAIN audio_transcripts
          /\ notes[noteRuns[r].noteId].content_text =
                Merge(noteRuns[r].existing, audio_transcripts[noteRuns[r].inputId])
          /\ "e" \notin Range(notes[noteRuns[r].noteId].content_text)

-----------------------------------------------------------------------------
(* Properties of the notes one invocation of processCapture creates *)

\* the notes created for the capture of run r; every commit has its own
\* capture, so these are the notes the run created
NotesOfRun(r) ==
    {i \in 1..Len(legacyNotes) : legacyNotes[i].capture_id = runs[r].captureId}

\* C36: an invocation of processCapture creates at most one note: none while
\* it runs and when it raises, one when it returns, and that one is the
\* 'Processing Failed' note exactly if the run went through the catch
\* block.
C36_AtMostOneNotePerRun ==
    \A r \in 1..Len(runs) :
       /\ Cardinality(NotesOfRun(r)) <= 1
       /\ runs[r].pc = "failed" => NotesOfRun(r) = {}
       /\ runs[r].pc = "done" =>
             /\ NotesOfRun(r) = {runs[r].noteId}
             /\ (legacyNotes[runs[r].noteId].title = Label("Processing Failed"))
                   <=> (runs[r].recoveries > 0)
       /\ NotesOfRun(r) # {} => runs[r].pc = "done"

\* one run failed at the insert of the structured note and returned the
\* degraded note, the other raised and left no note
C36_Witness ==
    \E r, q \in 1..Len(runs) :
       /\ runs[r].pc = "done"
       /\ runs[r].caughtAt = "Persisting"
       /\ Cardinality(NotesOfRun(r)) = 1
       /\ legacyNotes[runs[r].noteId].title = Label("Processing Failed")
       /\ runs[q].pc = "failed"
       /\ NotesOfRun(q) = {}

-----------------------------------------------------------------------------
(* Properties of the records written at commit time *)

\* the record of every run is in its table
RecordsExist ==
    /\ \A r \in 1..Len(noteRuns) :
          /\ noteRuns[r].inputId \in 1..Len(Inputs(noteRuns[r]))
          /\ Inputs(noteRuns[r])[noteRuns[r].inputId].note_id = noteRuns[r].noteId
    /\ \A r \in 1..Len(runs) :
          /\ runs[r].captureId \in 1..Len(captures)
          /\ captures[runs[r].captureId].user_id = runs[r].userId

\* C37: the record of a contribution (capture, audio file, text input) is
\* in its table from the start of its run on, and no step removes or changes
\* a record, whether the run fails or not.
C37_RecordsOutliveFailure ==
    /\ []RecordsExist
    /\ [][/\ IsPrefix(captures, captures')
          /\ IsPrefix(text_inputs, text_inputs')
          /\ IsPrefix(audio_files, audio_files')]_vars

\* a run on a note failed: its record is listed under the note and the
\* content_text of the note is what it was at creation; the run of a capture
\* raised and the capture is there, without a note
C37_Witness ==
    /\ \E r \in 1..Len(noteRuns) :
          /\ noteRuns[r].pc = "failed"
          /\ Inputs(noteRuns[r])[noteRuns[r].inputId].note_id = noteRuns[r].noteId
          /\ notes[noteRuns[r].noteId].content_text = initialText[noteRuns[r].noteId]
    /\ \E r \in 1..Len(runs) :
          /\ runs[r].pc = "failed"
          /\ captures[runs[r].captureId].user_id = runs[r].userId
          /\ legacyNotes = <<>>

-----------------------------------------------------------------------------
(* Properties of the failures a commit reports *)

-----------------------------------------------------------------------------
(* Properties of processCapture called on the capture of another user *)

\* C39: a run of processCapture for a user who does not own the capture
\* never holds the transcript or the text of the capture, in the try block
\* or in the catch block, and never returns a note; every note belongs to
\* the owner of its capture.
C39_NoNoteFromForeignCapture ==
    /\ \A r \in 1..Len(runs) :
          ~VisibleCapture(runs[r].userId, runs[r].captureId) =>
             /\ runs[r].text = <<>>
             /\ runs[r].fallbackText = <<>>
             /\ runs[r].capture = Unset
             /\ runs[r].pc # "done"
    /\ \A i \in 1..Len(legacyNotes) :
          VisibleCapture(legacyNotes[i].user_id, legacyNotes[i].capture_id)

\* the run of the other user on a capture whose transcript is saved went
\* through the catch block and raised; the notes are the owner's
C39_Witness ==
    \E r \in 1..Len(runs) :
       /\ runs[r].userId = "u2"
       /\ captures[runs[r].captureId].user_id = "u1"
       /\ runs[r].captureId \in DOMAIN transcripts
       /\ transcripts[runs[r].captureId] # <<>>
       /\ runs[r].recoveries > 0
       /\ runs[r].pc = "failed"
       /\ legacyNotes # <<>>
       /\ \A i \in 1..Len(legacyNotes) : legacyNotes[i].user_id = "u1"

====
